---- MODULE Spec2Model ----
(***************************************************************************)
(* InvoiceAnalytics: the relational store (vendors, categories, invoices,  *)
(* line items, payments), the reporting handlers of the REST API, the      *)
(* invoice search and the chat proxy.                                      *)
(*                                                                         *)
(* Money is an integer number of 1/CentUnits cents, so that the handlers'  *)
(* Math.round(x * 100) / 100 is a real rounding.  A date is a record       *)
(* [year, month, tick]: month is JavaScript's 0..11 and tick orders the    *)
(* instants inside one month (tick 0 is the month's first instant).        *)
(***************************************************************************)
EXTENDS Integers, Sequences, FiniteSets, TLC

VARIABLES
  now,        \* the server's wall clock, read by new Date()
  clock,      \* the store's write clock: stamps created_at
  vendors,    \* table vendors
  customers,  \* table customers
  categories, \* table categories
  invoices,   \* table invoices
  lineItems,  \* table line_items
  payments,   \* table payments
  pc,         \* where the request in flight stands ("idle": none)
  local,      \* the local variables of the request in flight
  res,        \* the response sent to the last request
  sent,       \* how many responses the last request has received
  upstream,   \* the requests received by the external AI service
  seedData,   \* the records of the seed script's input not yet processed
  seed        \* the seed script's run: status, input file, records attempted

store == <<vendors, customers, categories, invoices, lineItems, payments>>
vars == <<now, clock, vendors, customers, categories, invoices, lineItems, payments,
          pc, local, res, sent, upstream, seedData, seed>>

----------------------------------------------------------------------------
(* Bounds of the model *)

CentUnits == 2
MaxCashWrites == 3
MaxTrendInvoices == 2
MaxSearchInvoices == 2
MaxLineItems == 3
MaxSeedRecords == 12
MaxChatRequests == 2
MaxStatsInvoices == 2
MaxReportWrites == 3
MaxSeedRuns == 2
MaxSchemaWrites == 4
MaxQueryLen == 2
MaxChatMessages == 2

----------------------------------------------------------------------------
(* Helpers: JavaScript's Date, Math.round, Array.reduce *)

MonthShort ==
  <<"Jan", "Feb", "Mar", "Apr", "May", "Jun",
    "Jul", "Aug", "Sep", "Oct", "Nov", "Dec">>

NewDateNoCarry(y, m) == [year |-> y, month |-> m % 12, tick |-> 0]

\* new Date(year, monthIndex, 1): monthIndex outside 0..11 carries into the year
NewDate(y, m) == [year |-> y + (m \div 12), month |-> m % 12, tick |-> 0]

DateLt(a, b) ==
  \/ a.year < b.year
  \/ a.year = b.year /\ a.month < b.month
  \/ a.year = b.year /\ a.month = b.month /\ a.tick < b.tick

DateGe(a, b) == ~DateLt(a, b)

\* d.toLocaleDateString('en-US', { month: 'short', year: 'numeric' })
MonthLabel(d) == <<MonthShort[d.month + 1], d.year>>

\* `${d.getFullYear()}-${d.getMonth()}`
MonthKey(d) == <<d.year, d.month>>

\* Math.round(x * 100) / 100 on an amount of x / CentUnits cents:
\* Math.round(v) is floor(v + 1/2)
Round2(x) == CentUnits * ((2 * x + CentUnits) \div (2 * CentUnits))

Max(a, b) == IF a >= b THEN a ELSE b

RECURSIVE SetSum(_, _)
SetSum(f, S) ==
  IF S = {} THEN 0
  ELSE LET x == CHOOSE x \in S : TRUE IN f[x] + SetSum(f, S \ {x})

\* JSON values: a primitive is a record naming its type, an object is a
\* function from its keys
Str(s) == [string |-> s]
JsonNull == [null |-> TRUE]
Undefined == [undefined |-> TRUE]

NoResponse == [status |-> 0, body |-> [none |-> TRUE]]
NoLocal == [none |-> TRUE]

AddMonths(d, k) == [NewDate(d.year, d.month + k) EXCEPT !.tick = d.tick]

----------------------------------------------------------------------------
(* The store's writes: the seed script's statements, one row at a time *)

Digits == <<"0", "1", "2", "3", "4", "5", "6", "7", "8", "9">>

\* String(n) of a non-negative integer, one character per element
RECURSIVE Decimal(_)
Decimal(n) ==
  IF n < 10 THEN <<Digits[n + 1]>>
  ELSE Decimal(n \div 10) \o <<Digits[(n % 10) + 1]>>

\* prisma.invoice.upsert, create branch: no invoice has this number yet, and
\* the vendor and the customer exist (foreign keys); the row's id and
\* created_at are the store's: a fresh uuid, modelled by the write clock
InsertInvoice(number, vendorId, customerId, issueDate, dueDate, status, total) ==
  /\ \A i \in invoices : i.invoiceNumber # number
  /\ \E v \in vendors : v.id = vendorId
  /\ \E c \in customers : c.id = customerId
  /\ invoices' = invoices \cup
       {[id |-> clock + 1, invoiceNumber |-> number, vendorId |-> vendorId,
         customerId |-> customerId, issueDate |-> issueDate,
         dueDate |-> dueDate, status |-> status, total |-> total,
         createdAt |-> clock + 1]}
  /\ clock' = clock + 1

\* the invoice number the model's writers give their next invoice
NextNumber(prefix) == <<prefix>> \o Decimal(clock + 1)

\* prisma.payment.create: invoice_id references invoices.id
InsertPayment(invoiceId, amount) ==
  /\ \E i \in invoices : i.id = invoiceId
  /\ payments' = payments \cup
       {[id |-> clock + 1, invoiceId |-> invoiceId, amount |-> amount,
         createdAt |-> clock + 1]}
  /\ clock' = clock + 1

\* res.status(status).json(body), later in a request
Respond(status, body) ==
  /\ res' = [status |-> status, body |-> body]
  /\ sent' = sent + 1

\* res.status(status).json(body) of a request answered in the step it arrives
RespondAtOnce(status, body) ==
  /\ res' = [status |-> status, body |-> body]
  /\ sent' = 1

\* the response has gone out and the request's locals are dropped: the
\* handlers keep nothing from one request to the next
Finish ==
  /\ pc = "done"
  /\ pc' = "idle"
  /\ local' = NoLocal
  /\ res' = NoResponse
  /\ sent' = 0
  /\ UNCHANGED <<now, clock, store, upstream, seedData, seed>>

\* a write that follows a response is taken after Finish: the two commute,
\* and a state with pc = "done" then shows the response beside the store
\* its last read saw
WriterEnabled == pc # "done"

----------------------------------------------------------------------------
(* GET /api/cash-outflow (apps/api/src/routes/cashflow.ts) *)

CashMonthCount == 6

CashMonthsFromNext(n) ==
  [i \in 1..CashMonthCount |-> NewDate(n.year, n.month + i)]

\* the next 6 months, the current one first
CashMonths(n) ==
  LET start == NewDate(n.year, n.month)
  IN [i \in 1..CashMonthCount |-> NewDate(start.year, start.month + (i - 1))]

CashRangeEnd(months) ==
  NewDate(months[Len(months)].year, months[Len(months)].month + 1)

\* prisma.invoice.findMany: not cancelled, due inside the range
CashInvoiceQuery(months) ==
  {[id |-> i.id, total |-> i.total, dueDate |-> i.dueDate] :
     i \in {j \in invoices :
              /\ j.status # "cancelled"
              /\ DateGe(j.dueDate, months[1])
              /\ DateLt(j.dueDate, CashRangeEnd(months))}}

\* prisma.payment.findMany: the payments of the invoices read (the row id
\* only keeps two equal payments of one invoice apart)
CashPaymentQuery(invs) ==
  {[id |-> p.id, invoiceId |-> p.invoiceId, amount |-> p.amount] :
     p \in {q \in payments : \E i \in invs : i.id = q.invoiceId}}

CashPaidNone(pays, invId) == 0

\* paidByInvoice.get(inv.id) || 0
CashPaid(pays, invId) ==
  LET mine == {p \in pays : p.invoiceId = invId}
  IN SetSum([p \in mine |-> p.amount], mine)

CashRemainingMutant(inv, pays) == inv.total - CashPaid(pays, inv.id)

\* Math.max(Number(inv.total) - paid, 0)
CashRemaining(inv, pays) == Max(inv.total - CashPaid(pays, inv.id), 0)

\* totalsByKey after the forEach over the invoices
CashTotalsByKey(months, invs, pays) ==
  [k \in {MonthKey(months[i]) : i \in 1..Len(months)} |->
     LET due == {inv \in invs : MonthKey(inv.dueDate) = k}
     IN SetSum([inv \in due |-> CashRemaining(inv, pays)], due)]

CashBody(months, invs, pays) ==
  [labels |-> [i \in 1..Len(months) |-> MonthLabel(months[i])],
   data |-> [i \in 1..Len(months) |->
               Round2(CashTotalsByKey(months, invs, pays)[MonthKey(months[i])])]]

\* the request arrives: months, then the invoice read; with no invoice in
\* range the payment read is skipped and the response follows at once
CashRequest ==
  /\ pc = "idle"
  /\ LET months == CashMonths(now)
         invs == CashInvoiceQuery(months)
     IN /\ local' = [now |-> now, readAt |-> clock, months |-> months,
                     invoices |-> invs, payments |-> {}]
        /\ IF invs = {}
           THEN /\ RespondAtOnce(200, CashBody(months, invs, {}))
                /\ pc' = "done"
           ELSE /\ res' = NoResponse
                /\ sent' = 0
                /\ pc' = "cash_payments"
  /\ UNCHANGED <<now, clock, store, upstream, seedData, seed>>

\* the payment read, the buckets and the response
CashPayments ==
  /\ pc = "cash_payments"
  /\ LET pays == CashPaymentQuery(local.invoices)
     IN /\ local' = [local EXCEPT !.payments = pays]
        /\ Respond(200, CashBody(local.months, local.invoices, pays))
  /\ pc' = "done"
  /\ UNCHANGED <<now, clock, store, upstream, seedData, seed>>

\* a query throws: the catch block
CashFail ==
  /\ \/ /\ pc = "idle"
        /\ local' = [now |-> now, readAt |-> clock, months |-> CashMonths(now),
                     invoices |-> {}, payments |-> {}]
        /\ RespondAtOnce(500, [error |-> "Failed to fetch cash outflow data"])
     \/ /\ pc = "cash_payments"
        /\ local' = local
        /\ Respond(500, [error |-> "Failed to fetch cash outflow data"])
  /\ pc' = "done"
  /\ UNCHANGED <<now, clock, store, upstream, seedData, seed>>

----------------------------------------------------------------------------
(* Specification of the cash-outflow report under concurrent writes *)

CashNows == {[year |-> 2026, month |-> 2, tick |-> 1],
             [year |-> 2026, month |-> 10, tick |-> 0]}

\* what the writers insert: due month relative to the current one
CashInvoiceInputs ==
  {[off |-> 0, status |-> "pending", total |-> 3],
   [off |-> 5, status |-> "paid", total |-> 5],
   [off |-> 6, status |-> "overdue", total |-> 3],
   [off |-> 0, status |-> "cancelled", total |-> 3]}

CashPaymentAmounts == {1, 5}

\* the store once the seed script has upserted its first vendor and customer
InitStoreOneVendor ==
  /\ clock = 2
  /\ vendors = {[id |-> 1, name |-> <<"A", "c", "m", "e">>]}
  /\ customers = {[id |-> 2, name |-> <<"B", "o", "b">>]}
  /\ categories = {}
  /\ invoices = {}
  /\ lineItems = {}
  /\ payments = {}

\* the seed script before its first run
NoSeed ==
  [status |-> "idle", file |-> <<>>, runs |-> 0, faulted |-> FALSE,
   attempted |-> <<>>, history |-> <<>>]

InitIdle ==
  /\ pc = "idle"
  /\ local = NoLocal
  /\ res = NoResponse
  /\ sent = 0
  /\ upstream = <<>>
  /\ seedData = <<>>
  /\ seed = NoSeed

CashInit ==
  /\ now \in CashNows
  /\ InitStoreOneVendor
  /\ InitIdle

CashInsertInvoice ==
  /\ WriterEnabled
  /\ Cardinality(invoices) + Cardinality(payments) < MaxCashWrites
  /\ \E k \in CashInvoiceInputs :
       InsertInvoice(NextNumber("I"), 1, 2, NewDate(now.year, now.month),
                     NewDate(now.year, now.month + k.off), k.status, k.total)
  /\ UNCHANGED <<now, vendors, customers, categories, lineItems, payments,
                 pc, local, res, sent, upstream, seedData, seed>>

CashInsertPayment ==
  /\ WriterEnabled
  /\ Cardinality(invoices) + Cardinality(payments) < MaxCashWrites
  /\ \E i \in invoices, a \in CashPaymentAmounts : InsertPayment(i.id, a)
  /\ UNCHANGED <<now, vendors, customers, categories, invoices, lineItems,
                 pc, local, res, sent, upstream, seedData, seed>>

CashNext ==
  \/ Finish
  \/ CashInsertInvoice
  \/ CashInsertPayment
  \/ CashRequest
  \/ CashPayments
  \/ CashFail

SpecCash == CashInit /\ [][CashNext]_vars

IsCashResponse == pc = "done" /\ res.status = 200

\* C1: every bucket value of a cash-outflow response is >= 0, whatever the
\* store holds and whatever was written between the handler's two reads.
CashBucketsNonNegative ==
  IsCashResponse =>
    \A i \in 1..Len(res.body.data) : res.body.data[i] >= 0

\* a response computed from an invoice whose payments, one of them written
\* after the invoice read, exceed its total
CashOverpaidWitness ==
  /\ IsCashResponse
  /\ \E inv \in local.invoices :
       /\ CashPaid(local.payments, inv.id) > inv.total
       /\ \E p \in payments :
            /\ p.invoiceId = inv.id
            /\ p.createdAt > local.readAt
            /\ \E q \in local.payments : q.id = p.id

\* C11: a cash-outflow response has exactly 6 labels and 6 values: the
\* current calendar month, then the next 5 months in order; the value is 0
\* for every month in which the store holds no non-cancelled invoice due.
CashSixMonthsZeroFilled ==
  IsCashResponse =>
    /\ Len(res.body.labels) = 6
    /\ Len(res.body.data) = 6
    /\ \A i \in 1..6 :
         LET m == now.month + i - 1
         IN /\ res.body.labels[i] =
                 <<MonthShort[(m % 12) + 1], now.year + (m \div 12)>>
            /\ (\A inv \in invoices :
                  \/ inv.status = "cancelled"
                  \/ inv.dueDate.year # now.year + (m \div 12)
                  \/ inv.dueDate.month # m % 12)
                 => res.body.data[i] = 0

\* a response in November: the window runs into the next year, one month
\* has an amount due and the others are zero
CashSixMonthsWitness ==
  /\ IsCashResponse
  /\ now.month = 10
  /\ res.body.labels[6] = <<"Apr", now.year + 1>>
  /\ res.body.data[1] > 0
  /\ \A i \in 2..6 : res.body.data[i] = 0

\* C12 as stated: each bucket value equals the sum of the remaining amounts
\* of the non-cancelled invoices the handler read that are due in the
\* bucket's month.
CashBucketIsExactSum ==
  IsCashResponse =>
    \A i \in 1..Len(res.body.data) :
      LET m == now.month + i - 1
          due == {inv \in invoices :
                    /\ inv.createdAt <= local.readAt
                    /\ inv.status # "cancelled"
                    /\ inv.dueDate.year = now.year + (m \div 12)
                    /\ inv.dueDate.month = m % 12}
          paid == [inv \in due |->
                     LET mine == {p \in payments : p.invoiceId = inv.id}
                     IN SetSum([p \in mine |-> p.amount], mine)]
      IN res.body.data[i] =
           SetSum([inv \in due |->
                     IF inv.total > paid[inv] THEN inv.total - paid[inv]
                     ELSE 0], due)

\* C12: each bucket value equals, rounded to the cent, the sum of the
\* remaining amounts of the non-cancelled invoices the handler read that are
\* due in the bucket's month; an invoice paid in full adds 0, an invoice
\* without payments adds its total, an invoice due outside the window adds
\* to no bucket.
CashBucketIsRoundedSum ==
  IsCashResponse =>
    \A i \in 1..Len(res.body.data) :
      LET m == now.month + i - 1
          due == {inv \in invoices :
                    /\ inv.createdAt <= local.readAt
                    /\ inv.status # "cancelled"
                    /\ inv.dueDate.year = now.year + (m \div 12)
                    /\ inv.dueDate.month = m % 12}
          paid == [inv \in due |->
                     LET mine == {p \in payments : p.invoiceId = inv.id}
                     IN SetSum([p \in mine |-> p.amount], mine)]
          sum == SetSum([inv \in due |->
                           IF inv.total > paid[inv] THEN inv.total - paid[inv]
                           ELSE 0], due)
      IN /\ 2 * res.body.data[i] >= 2 * sum - CentUnits + 1
         /\ 2 * res.body.data[i] <= 2 * sum + CentUnits
         /\ res.body.data[i] % CentUnits = 0

\* a paid invoice whose payment equals its total is due in the last bucket,
\* which is 0; an invoice without payments is due in the first bucket
CashPaidInFullWitness ==
  /\ IsCashResponse
  /\ \E inv \in local.invoices :
       /\ inv.total > 0
       /\ CashPaid(payments, inv.id) = inv.total
       /\ MonthKey(inv.dueDate) = MonthKey(local.months[6])
  /\ res.body.data[6] = 0
  /\ res.body.data[1] > 0

\* C15: every cash-outflow response, also after a failed query, is 200
\* with a {labels, data} payload, zero-filled or empty.
CashFailureIsEmptyPayload ==
  pc = "done" =>
    /\ res.status = 200
    /\ DOMAIN res.body = {"labels", "data"}
    /\ Len(res.body.labels) = Len(res.body.data)

----------------------------------------------------------------------------
(* GET /api/invoice-trends, basis-aware (unnamed/part_009, first handler) *)

TrendMonthCount == 12

\* 'DUE'.toLowerCase() and the like, on the values the model sends
ToLowerCase(s) ==
  CASE s = "DUE" -> "due"
    [] s = "Due" -> "due"
    [] s = "ISSUE" -> "issue"
    [] OTHER -> s

BasisKeyCaseSensitive(basis) ==
  IF basis = "due" THEN "dueDate" ELSE "issueDate"

\* (String(req.query.basis || 'issue').toLowerCase() === 'due')
\*   ? 'dueDate' : 'issueDate'; an absent basis is ""
BasisKey(basis) ==
  IF ToLowerCase(IF basis = "" THEN "issue" ELSE basis) = "due"
  THEN "dueDate" ELSE "issueDate"

\* for (let i = 11; i >= 0; i--) months.push(new Date(y, m - i, 1))
TrendsMonths(n) ==
  LET start == NewDate(n.year, n.month)
  IN [k \in 1..TrendMonthCount |->
        NewDate(start.year, start.month - (TrendMonthCount - k))]

\* prisma.invoice.findMany: not cancelled, basis date >= fromDate
TrendsInvoiceQuery(basisKey, months) ==
  LET fromDate == NewDate(months[1].year, months[1].month)
  IN {[id |-> i.id, total |-> i.total, issueDate |-> i.issueDate,
       dueDate |-> i.dueDate] :
        i \in {j \in invoices :
                 /\ j.status # "cancelled"
                 /\ DateGe(j[basisKey], fromDate)}}

\* sums after the forEach over the invoices: only keys of the window count
TrendsSums(months, invs, basisKey) ==
  [k \in {MonthKey(months[i]) : i \in 1..Len(months)} |->
     LET mine == {inv \in invs : MonthKey(inv[basisKey]) = k}
     IN [amount |-> SetSum([inv \in mine |-> inv.total], mine),
         count |-> Cardinality(mine)]]

TrendsDatasets(amounts, counts) ==
  <<[label |-> "Total Amount", data |-> amounts, yAxisID |-> "y-amount"],
    [label |-> "Invoice Count", data |-> counts, yAxisID |-> "y-count"]>>

TrendsBody(months, invs, basisKey) ==
  LET sums == TrendsSums(months, invs, basisKey)
  IN [labels |-> [i \in 1..Len(months) |-> MonthLabel(months[i])],
      datasets |-> TrendsDatasets(
        [i \in 1..Len(months) |-> Round2(sums[MonthKey(months[i])].amount)],
        [i \in 1..Len(months) |-> sums[MonthKey(months[i])].count])]

\* the catch block: the same 12 labels, zeros
TrendsFallbackBody(months) ==
  LET labels == [i \in 1..Len(months) |-> MonthLabel(months[i])]
  IN [labels |-> labels,
      datasets |-> TrendsDatasets([i \in 1..Len(labels) |-> 0],
                                  [i \in 1..Len(labels) |-> 0])]

TrendsRequest ==
  /\ pc = "idle"
  /\ \E basis \in {"", "issue", "due", "DUE", "month"} :
       LET basisKey == BasisKey(basis)
           months == TrendsMonths(now)
           invs == TrendsInvoiceQuery(basisKey, months)
       IN /\ local' = [handler |-> "trends", basis |-> basis,
                       basisKey |-> basisKey, months |-> months,
                       invoices |-> invs, failed |-> FALSE]
          /\ RespondAtOnce(200, TrendsBody(months, invs, basisKey))
  /\ pc' = "done"
  /\ UNCHANGED <<now, clock, store, upstream, seedData, seed>>

\* prisma.invoice.findMany throws
TrendsFail ==
  /\ pc = "idle"
  /\ \E basis \in {"", "due"} :
       /\ local' = [handler |-> "trends", basis |-> basis,
                    basisKey |-> BasisKey(basis),
                    months |-> TrendsMonths(now), invoices |-> {},
                    failed |-> TRUE]
       /\ RespondAtOnce(200, TrendsFallbackBody(TrendsMonths(now)))
  /\ pc' = "done"
  /\ UNCHANGED <<now, clock, store, upstream, seedData, seed>>

----------------------------------------------------------------------------
(* Specification of the basis-aware trends report *)

TrendNows == {[year |-> y, month |-> m, tick |-> 1] :
                y \in {2025, 2026}, m \in {0, 5, 11}}

\* issue and due month relative to the current month, and the instant in it
TrendInvoiceInputs ==
  {[issue |-> -12, due |-> -11, tick |-> 1, status |-> "paid", total |-> 3],
   [issue |-> -11, due |-> 0, tick |-> 0, status |-> "pending", total |-> 5],
   [issue |-> 0, due |-> 1, tick |-> 1, status |-> "overdue", total |-> 3],
   [issue |-> 1, due |-> 2, tick |-> 0, status |-> "pending", total |-> 4],
   [issue |-> -1, due |-> 0, tick |-> 1, status |-> "cancelled", total |-> 3]}

TrendsInit ==
  /\ now \in TrendNows
  /\ InitStoreOneVendor
  /\ InitIdle

TrendsInsertInvoice ==
  /\ WriterEnabled
  /\ Cardinality(invoices) < MaxTrendInvoices
  /\ \E k \in TrendInvoiceInputs :
       InsertInvoice(NextNumber("I"), 1, 2,
         [NewDate(now.year, now.month + k.issue) EXCEPT !.tick = k.tick],
         [NewDate(now.year, now.month + k.due) EXCEPT !.tick = k.tick],
         k.status, k.total)
  /\ UNCHANGED <<now, vendors, customers, categories, lineItems, payments,
                 pc, local, res, sent, upstream, seedData, seed>>

TrendsNext ==
  \/ Finish
  \/ TrendsInsertInvoice
  \/ TrendsRequest
  \/ TrendsFail

SpecTrends == TrendsInit /\ [][TrendsNext]_vars

IsTrendsResponse == pc = "done" /\ res.status = 200

\* the month number of a label "Mon YYYY"
LabelMonthNumber(label) ==
  label[2] * 12 + (CHOOSE i \in 1..12 : MonthShort[i] = label[1])

\* C2: for every current date and store content a trends response has 12
\* labels and two datasets of 12 values; the labels are consecutive calendar
\* months, oldest first, and the last one is the current month.
TrendsTwelveConsecutiveMonths ==
  IsTrendsResponse =>
    /\ Len(res.body.labels) = 12
    /\ Len(res.body.datasets) = 2
    /\ \A d \in 1..2 : Len(res.body.datasets[d].data) = 12
    /\ res.body.labels[12] = <<MonthShort[now.month + 1], now.year>>
    /\ \A i \in 1..11 :
         LabelMonthNumber(res.body.labels[i + 1]) =
           LabelMonthNumber(res.body.labels[i]) + 1

\* a response whose window crosses a year boundary and counts an invoice
TrendsYearCrossingWitness ==
  /\ IsTrendsResponse
  /\ res.body.labels[1][2] < res.body.labels[12][2]
  /\ \E i \in 1..12 : res.body.datasets[2].data[i] > 0

\* C20: a trends response computed from the store buckets by due date when
\* basis is "due" in any letter case and by issue date otherwise; slot i
\* counts exactly the non-cancelled invoices whose basis date lies in the
\* i-th month of the window, so an invoice is counted at most once and an
\* invoice dated before the window or in a future month in no slot.
TrendsBucketsByBasis ==
  (IsTrendsResponse /\ local.handler = "trends" /\ ~local.failed) =>
    \A i \in 1..12 :
      LET m == now.month - (12 - i)
          byDue == local.basis \in {"due", "DUE", "Due", "dUe"}
          mine == {inv \in invoices :
                     LET d == IF byDue THEN inv.dueDate ELSE inv.issueDate
                     IN /\ inv.status # "cancelled"
                        /\ d.year = now.year + (m \div 12)
                        /\ d.month = m % 12}
          amount == SetSum([inv \in mine |-> inv.total], mine)
      IN /\ res.body.datasets[2].data[i] = Cardinality(mine)
         /\ 2 * res.body.datasets[1].data[i] >= 2 * amount - CentUnits + 1
         /\ 2 * res.body.datasets[1].data[i] <= 2 * amount + CentUnits

\* basis=DUE: an invoice issued eleven months ago and due this month is
\* counted in the last slot alone, and an invoice issued this month and due
\* next month in no slot
TrendsByDueWitness ==
  /\ IsTrendsResponse /\ ~local.failed /\ local.basis = "DUE"
  /\ res.body.datasets[2].data[12] = 1
  /\ \A i \in 1..11 : res.body.datasets[2].data[i] = 0
  /\ \E a, b \in invoices :
       /\ a.status # "cancelled" /\ b.status # "cancelled"
       /\ MonthKey(a.dueDate) = <<now.year, now.month>>
       /\ MonthKey(a.issueDate) # MonthKey(a.dueDate)
       /\ MonthKey(b.issueDate) = <<now.year, now.month>>
       /\ DateLt(NewDate(now.year, now.month + 1), b.dueDate)

----------------------------------------------------------------------------
(* GET /api/invoice-trends of apps/api/src/routes/trends.ts, and            *)
(* DatabaseStorage.getInvoiceTrends served by server/routes.ts              *)

\* twelveMonthsAgo.setMonth(twelveMonthsAgo.getMonth() - 12): the same
\* instant one year earlier
TwelveMonthsAgo(n) == [n EXCEPT !.year = n.year - 1]

\* findMany / select: issued at or after twelveMonthsAgo, not cancelled
LegacyInvoiceQuery(n) ==
  {[id |-> i.id, issueDate |-> i.issueDate, total |-> i.total] :
     i \in {j \in invoices :
              /\ DateGe(j.issueDate, TwelveMonthsAgo(n))
              /\ j.status # "cancelled"}}

\* `${year}-${String(month + 1).padStart(2, '0')}`
PaddedMonthKey(d) == <<d.year, d.month + 1>>

KeyLt(a, b) == a[1] < b[1] \/ (a[1] = b[1] /\ a[2] < b[2])

\* Array.from(monthlyData.keys()).sort()
RECURSIVE SortKeys(_)
SortKeys(S) ==
  IF S = {} THEN <<>>
  ELSE LET least == CHOOSE k \in S : \A o \in S \ {k} : KeyLt(k, o)
       IN <<least>> \o SortKeys(S \ {least})

\* monthlyData: only the months that hold an invoice get an entry
LegacyMonthlyData(invs) ==
  [k \in {PaddedMonthKey(inv.issueDate) : inv \in invs} |->
     LET mine == {inv \in invs : PaddedMonthKey(inv.issueDate) = k}
     IN [amount |-> SetSum([inv \in mine |-> inv.total], mine),
         count |-> Cardinality(mine)]]

LegacyTrendsBody(invs) ==
  LET monthlyData == LegacyMonthlyData(invs)
      keys == SortKeys(DOMAIN monthlyData)
  IN [labels |-> [i \in 1..Len(keys) |->
                    MonthLabel(NewDate(keys[i][1], keys[i][2] - 1))],
      datasets |-> TrendsDatasets(
        [i \in 1..Len(keys) |-> Round2(monthlyData[keys[i]].amount)],
        [i \in 1..Len(keys) |-> monthlyData[keys[i]].count])]

\* router.get('/') of routes/trends.ts
LegacyTrendsRoute ==
  /\ pc = "idle"
  /\ LET invs == LegacyInvoiceQuery(now)
     IN /\ local' = [handler |-> "routes/trends.ts", invoices |-> invs]
        /\ RespondAtOnce(200, LegacyTrendsBody(invs))
  /\ pc' = "done"
  /\ UNCHANGED <<now, clock, store, upstream, seedData, seed>>

\* app.get("/api/invoice-trends") of server/routes.ts:
\* res.json(await storage.getInvoiceTrends())
StorageTrendsRoute ==
  /\ pc = "idle"
  /\ LET invs == LegacyInvoiceQuery(now)
     IN /\ local' = [handler |-> "storage.getInvoiceTrends", invoices |-> invs]
        /\ RespondAtOnce(200, LegacyTrendsBody(invs))
  /\ pc' = "done"
  /\ UNCHANGED <<now, clock, store, upstream, seedData, seed>>

\* the query throws: both catch blocks answer 500
LegacyTrendsFail ==
  /\ pc = "idle"
  /\ \E h \in {"routes/trends.ts", "storage.getInvoiceTrends"} :
       local' = [handler |-> h, invoices |-> {}]
  /\ RespondAtOnce(500, [error |-> "Failed to fetch invoice trends"])
  /\ pc' = "done"
  /\ UNCHANGED <<now, clock, store, upstream, seedData, seed>>

----------------------------------------------------------------------------
(* Specification of the two trends reports that group by the stored months *)

LegacyNows == {[year |-> 2026, month |-> m, tick |-> 1] : m \in {0, 10}}

LegacyInvoiceInputs ==
  {[issue |-> -12, tick |-> 0, status |-> "paid", total |-> 3],
   [issue |-> -12, tick |-> 1, status |-> "pending", total |-> 3],
   [issue |-> -3, tick |-> 0, status |-> "pending", total |-> 5],
   [issue |-> 0, tick |-> 0, status |-> "overdue", total |-> 4],
   [issue |-> -1, tick |-> 1, status |-> "cancelled", total |-> 3]}

LegacyInit ==
  /\ now \in LegacyNows
  /\ InitStoreOneVendor
  /\ InitIdle

LegacyInsertInvoice ==
  /\ WriterEnabled
  /\ Cardinality(invoices) < MaxTrendInvoices
  /\ \E k \in LegacyInvoiceInputs :
       LET issued == [NewDate(now.year, now.month + k.issue)
                        EXCEPT !.tick = k.tick]
       IN InsertInvoice(NextNumber("I"), 1, 2, issued, AddMonths(issued, 1),
                        k.status, k.total)
  /\ UNCHANGED <<now, vendors, customers, categories, lineItems, payments,
                 pc, local, res, sent, upstream, seedData, seed>>

LegacyNext ==
  \/ Finish
  \/ LegacyInsertInvoice
  \/ LegacyTrendsRoute
  \/ StorageTrendsRoute
  \/ LegacyTrendsFail

SpecTrendsLegacy == LegacyInit /\ [][LegacyNext]_vars

\* C3: in the responses of routes/trends.ts and of getInvoiceTrends every
\* one of the most recent 12 calendar months appears in labels, and a month
\* with no matching non-cancelled invoice has amount 0 and count 0.
LegacyTrendsZeroFilled ==
  (pc = "done" /\ res.status = 200) =>
    \A back \in 0..11 :
      LET month == NewDate(now.year, now.month - back)
          matching == {inv \in local.invoices :
                         MonthKey(inv.issueDate) = MonthKey(month)}
      IN \E i \in 1..Len(res.body.labels) :
           /\ res.body.labels[i] = MonthLabel(month)
           /\ matching = {} =>
                /\ res.body.datasets[1].data[i] = 0
                /\ res.body.datasets[2].data[i] = 0

----------------------------------------------------------------------------
(* GET /api/invoices: apps/api/src/routes/invoices.ts, and                  *)
(* DatabaseStorage.getInvoices served by server/routes.ts.                  *)
(* req.query is a function from the names of the parameters sent to their   *)
(* values; text values are sequences of characters.                         *)

\* const { q = '', ... } = req.query
Param(query, name, default) ==
  IF name \in DOMAIN query THEN query[name] ELSE default

\* String.prototype.toLowerCase per character: mode 'insensitive', ILIKE
LowerChar(c) ==
  CASE c = "A" -> "a"
    [] c = "B" -> "b"
    [] c = "C" -> "c"
    [] OTHER -> c

LowerText(t) == [i \in 1..Len(t) |-> LowerChar(t[i])]

Contains(text, part) ==
  \E i \in 0..(Len(text) - Len(part)) : SubSeq(text, i + 1, i + Len(part)) = part

ContainsInsensitive(text, part) == Contains(LowerText(text), LowerText(part))

\* parseInt of a decimal numeral
RECURSIVE ParseInt(_)
ParseInt(t) ==
  IF Len(t) = 0 THEN 0
  ELSE 10 * ParseInt(SubSeq(t, 1, Len(t) - 1))
         + ((CHOOSE d \in 1..10 : Digits[d] = t[Len(t)]) - 1)

InvalidDate == [year |-> 0, month |-> 0, tick |-> -1]

\* new Date(text): an ISO date gives its instant, anything else Invalid Date
ParseDate(text) ==
  CASE text = "2026-10-01" -> [year |-> 2026, month |-> 9, tick |-> 0]
    [] text = "2026-11-01" -> [year |-> 2026, month |-> 10, tick |-> 0]
    [] OTHER -> InvalidDate

VendorName(inv) == (CHOOSE v \in vendors : v.id = inv.vendorId).name

CustomerName(inv) == (CHOOSE c \in customers : c.id = inv.customerId).name

SearchParamsWildcardDefault(query) ==
  [q |-> Param(query, "q", <<"*">>),
   status |-> Param(query, "status", ""),
   dateFrom |-> Param(query, "dateFrom", ""),
   dateTo |-> Param(query, "dateTo", ""),
   limit |-> Param(query, "limit", <<"2", "0">>),
   offset |-> Param(query, "offset", <<"0">>)]

\* the parameters after the defaults
SearchParams(query) ==
  [q |-> Param(query, "q", <<>>),
   status |-> Param(query, "status", ""),
   dateFrom |-> Param(query, "dateFrom", ""),
   dateTo |-> Param(query, "dateTo", ""),
   limit |-> Param(query, "limit", <<"2", "0">>),
   offset |-> Param(query, "offset", <<"0">>)]

\* a date bound that is sent and does not parse
HasInvalidDate(p) ==
  \/ p.dateFrom # "" /\ ParseDate(p.dateFrom) = InvalidDate
  \/ p.dateTo # "" /\ ParseDate(p.dateTo) = InvalidDate

\* the Prisma where of the route: AND [], OR over number and vendor name
\* when q is non-empty, status when non-empty, issueDate gte / lte
RouteMatches(inv, p) ==
  /\ p.q # <<>> =>
       \/ ContainsInsensitive(inv.invoiceNumber, p.q)
       \/ ContainsInsensitive(VendorName(inv), p.q)
  /\ p.status # "" => inv.status = p.status
  /\ p.dateFrom # "" => DateGe(inv.issueDate, ParseDate(p.dateFrom))
  /\ p.dateTo # "" => ~DateLt(ParseDate(p.dateTo), inv.issueDate)

\* the whereClause of getInvoices: and(...conditions) joins the conditions
\* with " and "; the search condition is the raw text "number ILIKE .. OR
\* name ILIKE ..", so in SQL its second half binds to the other conditions
StorageMatches(inv, p) ==
  LET others ==
        /\ p.status # "" => inv.status = p.status
        /\ p.dateFrom # "" => DateGe(inv.issueDate, ParseDate(p.dateFrom))
        /\ p.dateTo # "" => ~DateLt(ParseDate(p.dateTo), inv.issueDate)
  IN IF p.q # <<>>
     THEN \/ ContainsInsensitive(inv.invoiceNumber, p.q)
          \/ ContainsInsensitive(VendorName(inv), p.q) /\ others
     ELSE others

\* orderBy issueDate desc (rows of one instant: the newer row first)
RECURSIVE SortByIssueDateDesc(_)
SortByIssueDateDesc(S) ==
  IF S = {} THEN <<>>
  ELSE LET first == CHOOSE i \in S : \A o \in S \ {i} :
                      \/ DateLt(o.issueDate, i.issueDate)
                      \/ o.issueDate = i.issueDate /\ o.id < i.id
       IN <<first>> \o SortByIssueDateDesc(S \ {first})

\* take / skip, limit / offset
PageFromStart(rows, take, skip) ==
  SubSeq(rows, 1, IF take < Len(rows) THEN take ELSE Len(rows))

Page(rows, take, skip) ==
  SubSeq(rows, skip + 1, IF skip + take < Len(rows) THEN skip + take ELSE Len(rows))

\* include: { vendor: true, customer: true }
InvoiceRow(inv) ==
  [id |-> inv.id, invoiceNumber |-> inv.invoiceNumber, status |-> inv.status,
   issueDate |-> inv.issueDate, dueDate |-> inv.dueDate, total |-> inv.total,
   vendor |-> [name |-> VendorName(inv)],
   customer |-> [name |-> CustomerName(inv)]]

HasMoreOffByOne(offset, returned, total) == offset + returned <= total

\* parseInt(offset) + invoices.length < total
HasMore(offset, returned, total) == offset + returned < total

SearchBody(rows, total, limit, offset) ==
  [data |-> rows,
   pagination |-> [total |-> total, limit |-> limit, offset |-> offset,
                   hasMore |-> HasMore(offset, Len(rows), total)]]

\* the route's catch block
SearchFallbackBody ==
  [data |-> <<>>,
   pagination |-> [total |-> 0, limit |-> 20, offset |-> 0, hasMore |-> FALSE]]

\* the count query of either handler
SearchCount(handler, p) ==
  Cardinality({i \in invoices :
                 IF handler = "routes/invoices.ts"
                 THEN RouteMatches(i, p) ELSE StorageMatches(i, p)})

\* the page query of either handler
SearchPage(handler, p) ==
  LET rows == SortByIssueDateDesc(
                {i \in invoices :
                   IF handler = "routes/invoices.ts"
                   THEN RouteMatches(i, p) ELSE StorageMatches(i, p)})
      page == Page(rows, ParseInt(p.limit), ParseInt(p.offset))
  IN [k \in 1..Len(page) |-> InvoiceRow(page[k])]

SearchFailureAlways500(handler) ==
  [status |-> 500, body |-> [error |-> "Failed to fetch invoices"]]

\* what the handler answers when a query throws: the route's fallback page,
\* 500 from server/routes.ts
SearchFailure(handler) ==
  IF handler = "routes/invoices.ts"
  THEN [status |-> 200, body |-> SearchFallbackBody]
  ELSE [status |-> 500, body |-> [error |-> "Failed to fetch invoices"]]

\* the request arrives: the where clause and the count query; an Invalid
\* Date bound makes the query throw
SearchRequest(handler, query) ==
  /\ pc = "idle"
  /\ LET p == SearchParams(query)
     IN IF HasInvalidDate(p)
        THEN /\ local' = [handler |-> handler, query |-> query, params |-> p,
                          total |-> 0, failed |-> TRUE,
                          readAt |-> clock]
             /\ RespondAtOnce(SearchFailure(handler).status,
                              SearchFailure(handler).body)
             /\ pc' = "done"
        ELSE /\ local' = [handler |-> handler, query |-> query, params |-> p,
                          total |-> SearchCount(handler, p), failed |-> FALSE,
                          readAt |-> clock]
             /\ res' = NoResponse
             /\ sent' = 0
             /\ pc' = "invoices_page"
  /\ UNCHANGED <<now, clock, store, upstream, seedData, seed>>

\* the page query and the response
SearchRespond ==
  /\ pc = "invoices_page"
  /\ Respond(200, SearchBody(SearchPage(local.handler, local.params),
                             local.total, ParseInt(local.params.limit),
                             ParseInt(local.params.offset)))
  /\ pc' = "done"
  /\ UNCHANGED <<now, clock, store, local, upstream, seedData, seed>>

\* the page query throws
SearchFail ==
  /\ pc = "invoices_page"
  /\ local' = [local EXCEPT !.failed = TRUE]
  /\ Respond(SearchFailure(local.handler).status,
             SearchFailure(local.handler).body)
  /\ pc' = "done"
  /\ UNCHANGED <<now, clock, store, upstream, seedData, seed>>

\* the count query throws, whatever the parameters
SearchCountFail(handler, query) ==
  /\ pc = "idle"
  /\ local' = [handler |-> handler, query |-> query,
               params |-> SearchParams(query), total |-> 0, failed |-> TRUE,
                          readAt |-> clock]
  /\ RespondAtOnce(SearchFailure(handler).status, SearchFailure(handler).body)
  /\ pc' = "done"
  /\ UNCHANGED <<now, clock, store, upstream, seedData, seed>>

----------------------------------------------------------------------------
(* Specification of the invoice search under concurrent writes *)

NoQuery == <<>>

SearchQueries ==
  {a @@ b @@ c @@ d @@ e @@ f :
     a \in {NoQuery, "q" :> <<>>, "q" :> <<"a">>},
     b \in {NoQuery, "status" :> "", "status" :> "paid", "status" :> "all"},
     c \in {NoQuery, "dateFrom" :> "2026-10-01", "dateFrom" :> "yesterday"},
     d \in {NoQuery, "dateTo" :> "2026-11-01", "dateTo" :> "soon"},
     e \in {NoQuery, "limit" :> <<"1">>},
     f \in {NoQuery, "offset" :> <<"1">>}}

SearchInvoiceInputs ==
  {[prefix |-> "A", vendorId |-> 1, month |-> 8, status |-> "paid", total |-> 3],
   [prefix |-> "x", vendorId |-> 1, month |-> 9, status |-> "pending", total |-> 5],
   [prefix |-> "a", vendorId |-> 3, month |-> 10, status |-> "pending", total |-> 4],
   [prefix |-> "x", vendorId |-> 3, month |-> 10, status |-> "paid", total |-> 3]}

SearchInit ==
  /\ now = [year |-> 2026, month |-> 10, tick |-> 1]
  /\ clock = 3
  /\ vendors = {[id |-> 1, name |-> <<"A", "c", "m", "e">>],
                [id |-> 3, name |-> <<"Z", "e", "d">>]}
  /\ customers = {[id |-> 2, name |-> <<"B", "o", "b">>]}
  /\ categories = {}
  /\ invoices = {}
  /\ lineItems = {}
  /\ payments = {}
  /\ InitIdle

SearchInsertInvoice ==
  /\ WriterEnabled
  /\ Cardinality(invoices) < MaxSearchInvoices
  /\ \E k \in SearchInvoiceInputs :
       InsertInvoice(NextNumber(k.prefix), k.vendorId, 2,
                     NewDate(2026, k.month), NewDate(2026, k.month + 1),
                     k.status, k.total)
  /\ UNCHANGED <<now, vendors, customers, categories, lineItems, payments,
                 pc, local, res, sent, upstream, seedData, seed>>

RouteSearchRequest ==
  \E query \in SearchQueries : SearchRequest("routes/invoices.ts", query)

StorageSearchRequest ==
  \E query \in SearchQueries : SearchRequest("storage.getInvoices", query)

SearchNext ==
  \/ Finish
  \/ SearchInsertInvoice
  \/ RouteSearchRequest
  \/ StorageSearchRequest
  \/ SearchRespond
  \/ SearchFail
  \/ \E handler \in {"routes/invoices.ts", "storage.getInvoices"},
        query \in SearchQueries : SearchCountFail(handler, query)

SpecSearch == SearchInit /\ [][SearchNext]_vars

IsSearchResponse == pc = "done" /\ res.status = 200

\* C4: in every 200 response of the invoice search, the fallback page
\* included, hasMore is true iff offset + len(data) < total.
SearchHasMoreIff ==
  IsSearchResponse =>
    (res.body.pagination.hasMore <=>
       res.body.pagination.offset + Len(res.body.data)
         < res.body.pagination.total)

\* a first page of one row that is followed by more rows
SearchHasMoreWitness ==
  /\ IsSearchResponse
  /\ res.body.pagination.hasMore
  /\ res.body.pagination.offset = 0
  /\ Len(res.body.data) = 1

\* C14: when the count query or the page query of the routes/invoices.ts
\* handler fails, the response is 200 with data = [], total 0 and hasMore
\* false.
SearchFailureIsEmptyPage ==
  (pc = "done" /\ local.handler = "routes/invoices.ts" /\ local.failed) =>
    /\ res.status = 200
    /\ res.body.data = <<>>
    /\ res.body.pagination.total = 0
    /\ res.body.pagination.hasMore = FALSE

\* the page query fails after the count query found rows
SearchFailureWitness ==
  /\ pc = "done" /\ local.handler = "routes/invoices.ts"
  /\ local.failed /\ local.total > 0
  /\ res.status = 200 /\ res.body.pagination.total = 0

\* a 200 response of the search built from both reads
IsSearchPage ==
  /\ pc = "done"
  /\ "handler" \in DOMAIN local
  /\ local.handler \in {"routes/invoices.ts", "storage.getInvoices"}
  /\ ~local.failed

\* C26 as stated: when no write falls between the count query and the page
\* query, offset + len(data) <= total.
SearchNoWriteWithinTotal ==
  (IsSearchPage /\ local.readAt = clock) =>
    res.body.pagination.offset + Len(res.body.data) <= res.body.pagination.total

\* C26: a response whose offset lies within its total and whose page
\* reaches beyond the total comes only from a write between the count query
\* and the page query.
SearchDisagreementNeedsWrite ==
  (/\ IsSearchPage
   /\ res.body.pagination.offset <= res.body.pagination.total
   /\ res.body.pagination.offset + Len(res.body.data)
        > res.body.pagination.total) =>
    local.readAt < clock

\* an invoice inserted after the count is on the page
SearchDisagreementWitness ==
  /\ IsSearchPage
  /\ local.readAt < clock
  /\ res.body.pagination.offset <= res.body.pagination.total
  /\ res.body.pagination.offset + Len(res.body.data)
       > res.body.pagination.total

\* C27: every row that storage.getInvoices returns matches the search text
\* (in its invoice number or its vendor's name) and has the status asked
\* for and lies within the date bounds, whichever of them are supplied.
StorageRowsMatchAllFilters ==
  (IsSearchPage /\ local.handler = "storage.getInvoices") =>
    \A k \in DOMAIN res.body.data :
      LET row == res.body.data[k]
          p == local.params
      IN /\ p.q # <<>> =>
              \/ ContainsInsensitive(row.invoiceNumber, p.q)
              \/ ContainsInsensitive(row.vendor.name, p.q)
         /\ p.status # "" => row.status = p.status
         /\ p.dateFrom # "" => DateGe(row.issueDate, ParseDate(p.dateFrom))
         /\ p.dateTo # "" => ~DateLt(ParseDate(p.dateTo), row.issueDate)

\* C16: a request with q = "" is answered as the same request without q: in
\* the store the response was read from, both have the same count and the
\* same page, both fail or neither does, and the response carries the page
\* of the request without q.
SearchEmptyQIsNoFilter ==
  (pc = "done" /\ "query" \in DOMAIN local
   /\ "q" \in DOMAIN local.query /\ local.query["q"] = <<>>) =>
    LET h == local.handler
        without == SearchParams([k \in DOMAIN local.query \ {"q"} |->
                                   local.query[k]])
    IN /\ HasInvalidDate(without) <=> HasInvalidDate(local.params)
       /\ SearchCount(h, without) = SearchCount(h, local.params)
       /\ SearchPage(h, without) = SearchPage(h, local.params)
       /\ ~local.failed =>
            res.body = SearchBody(SearchPage(h, without), local.total,
                                  ParseInt(without.limit),
                                  ParseInt(without.offset))

\* a request with q = "" answered with every invoice of the store, one of
\* which a text filter "a" would leave out
SearchEmptyQWitness ==
  /\ IsSearchResponse /\ ~local.failed
  /\ "q" \in DOMAIN local.query /\ local.query["q"] = <<>>
  /\ Len(res.body.data) = 2
  /\ \E i \in invoices :
       /\ ~ContainsInsensitive(i.invoiceNumber, <<"a">>)
       /\ ~ContainsInsensitive(VendorName(i), <<"a">>)

\* C17: a request with status "" or status "all" is answered as the same
\* request without status: the same count and the same page.
SearchStatusAllIsNoFilter ==
  (pc = "done" /\ "query" \in DOMAIN local
   /\ local.handler = "routes/invoices.ts"
   /\ "status" \in DOMAIN local.query
   /\ local.query["status"] \in {"", "all"}) =>
    LET without == SearchParams([k \in DOMAIN local.query \ {"status"} |->
                                   local.query[k]])
    IN /\ SearchCount(local.handler, without)
            = SearchCount(local.handler, local.params)
       /\ SearchPage(local.handler, without)
            = SearchPage(local.handler, local.params)

\* C18: a request whose dateFrom or dateTo does not parse is answered 200
\* with the count and the page of the same request without that parameter.
SearchMalformedDateIsNoBound ==
  (pc = "done" /\ "query" \in DOMAIN local
   /\ local.handler = "routes/invoices.ts"
   /\ HasInvalidDate(local.params)) =>
    LET bad == {k \in {"dateFrom", "dateTo"} :
                  /\ k \in DOMAIN local.query
                  /\ ParseDate(local.query[k]) = InvalidDate}
        without == SearchParams([k \in DOMAIN local.query \ bad |->
                                   local.query[k]])
    IN /\ res.status = 200
       /\ res.body = SearchBody(SearchPage(local.handler, without),
                                SearchCount(local.handler, without),
                                ParseInt(without.limit),
                                ParseInt(without.offset))

----------------------------------------------------------------------------
(* GET /api/category-spend (unnamed/part_006, second handler) *)

Null == 0

\* prisma.lineItem.create: invoice_id references invoices.id, category_id
\* is null or references categories.id
InsertLineItem(invoiceId, categoryId, amount) ==
  /\ \E i \in invoices : i.id = invoiceId
  /\ categoryId = Null \/ \E c \in categories : c.id = categoryId
  /\ lineItems' = lineItems \cup
       {[id |-> clock + 1, invoiceId |-> invoiceId, categoryId |-> categoryId,
         amount |-> amount]}
  /\ clock' = clock + 1

\* prisma.lineItem.findMany({ include: { category: true } }), in row order
RECURSIVE RowsById(_)
RowsById(S) ==
  IF S = {} THEN <<>>
  ELSE LET first == CHOOSE r \in S : \A o \in S : r.id <= o.id
       IN <<first>> \o RowsById(S \ {first})

CategoryLineItemQuery ==
  LET rows == RowsById(lineItems)
  IN [k \in 1..Len(rows) |->
        [id |-> rows[k].id, amount |-> rows[k].amount,
         category |-> IF rows[k].categoryId = Null THEN [name |-> ""]
                      ELSE [name |-> (CHOOSE c \in categories :
                                        c.id = rows[k].categoryId).name]]]

\* item.category?.name || 'Uncategorized' (a null category reads as "")
CategoryNameOf(item) ==
  IF item.category.name = "" THEN "Uncategorized" ELSE item.category.name

\* the keys of categoryTotals in insertion order
RECURSIVE CategoryKeys(_)
CategoryKeys(items) ==
  IF items = <<>> THEN <<>>
  ELSE LET before == CategoryKeys(SubSeq(items, 1, Len(items) - 1))
           name == CategoryNameOf(items[Len(items)])
       IN IF \E i \in 1..Len(before) : before[i] = name
          THEN before ELSE Append(before, name)

RECURSIVE CategoryTotalOverwrite(_, _)
CategoryTotalOverwrite(items, name) ==
  IF items = <<>> THEN 0
  ELSE IF CategoryNameOf(items[Len(items)]) = name
       THEN items[Len(items)].amount
       ELSE CategoryTotalOverwrite(SubSeq(items, 1, Len(items) - 1), name)

\* categoryTotals.get(name) after the forEach:
\* (categoryTotals.get(categoryName) || 0) + item.amount
RECURSIVE CategoryTotal(_, _)
CategoryTotal(items, name) ==
  IF items = <<>> THEN 0
  ELSE CategoryTotal(SubSeq(items, 1, Len(items) - 1), name)
         + (IF CategoryNameOf(items[Len(items)]) = name
            THEN items[Len(items)].amount ELSE 0)

\* Array.prototype.sort((a, b) => b.total - a.total): descending, stable
RECURSIVE SortByTotalDesc(_)
SortByTotalDesc(entries) ==
  IF entries = <<>> THEN <<>>
  ELSE LET k == CHOOSE i \in 1..Len(entries) :
                  /\ \A j \in 1..Len(entries) : entries[j].total <= entries[i].total
                  /\ \A j \in 1..(i - 1) : entries[j].total < entries[i].total
       IN <<entries[k]>> \o
            SortByTotalDesc(SubSeq(entries, 1, k - 1)
                              \o SubSeq(entries, k + 1, Len(entries)))

CategoryBody(items) ==
  LET keys == CategoryKeys(items)
      sorted == SortByTotalDesc(
                  [k \in 1..Len(keys) |->
                     [name |-> keys[k],
                      total |-> Round2(CategoryTotal(items, keys[k]))]])
  IN [labels |-> [k \in 1..Len(sorted) |-> sorted[k].name],
      data |-> [k \in 1..Len(sorted) |-> sorted[k].total]]

CategoryRequest ==
  /\ pc = "idle"
  /\ local' = [handler |-> "category-spend", read |-> TRUE,
               lineItems |-> CategoryLineItemQuery]
  /\ RespondAtOnce(200, CategoryBody(CategoryLineItemQuery))
  /\ pc' = "done"
  /\ UNCHANGED <<now, clock, store, upstream, seedData, seed>>

\* findMany throws: the catch block's empty chart
CategoryFail ==
  /\ pc = "idle"
  /\ local' = [handler |-> "category-spend", read |-> FALSE, lineItems |-> <<>>]
  /\ RespondAtOnce(200, [labels |-> <<>>, data |-> <<>>])
  /\ pc' = "done"
  /\ UNCHANGED <<now, clock, store, upstream, seedData, seed>>

\* storage.getCategorySpend: line items left-joined to their category and
\* grouped by categories.name; the line items without a category form the
\* group whose name is null
StorageCategoryGroups ==
  {IF l.categoryId = Null THEN JsonNull
   ELSE Str((CHOOSE c \in categories : c.id = l.categoryId).name) :
     l \in lineItems}

StorageCategoryGroupOf(l) ==
  IF l.categoryId = Null THEN JsonNull
  ELSE Str((CHOOSE c \in categories : c.id = l.categoryId).name)

StorageCategorySum(group) ==
  LET members == {l \in lineItems : StorageCategoryGroupOf(l) = group}
  IN SetSum([l \in members |-> l.amount], members)

\* the result sets orderBy(desc(sum)) allows: groups of equal sums come in
\* any order
StorageCategoryResults ==
  LET groups == StorageCategoryGroups
      n == Cardinality(groups)
  IN {[k \in 1..n |-> [categoryName |-> order[k],
                       total |-> StorageCategorySum(order[k])]] :
        order \in {o \in [1..n -> groups] :
                     /\ \A i, j \in 1..n : i # j => o[i] # o[j]
                     /\ \A i, j \in 1..n :
                          i < j => StorageCategorySum(o[i]) >= StorageCategorySum(o[j])}}

\* r.categoryName || 'Uncategorized'
StorageCategoryLabel(row) ==
  IF row.categoryName = JsonNull \/ row.categoryName = Str("")
  THEN "Uncategorized" ELSE row.categoryName.string

StorageCategoryBody(results) ==
  [labels |-> [k \in 1..Len(results) |-> StorageCategoryLabel(results[k])],
   data |-> [k \in 1..Len(results) |-> Round2(results[k].total)]]

StorageCategoryRequest ==
  /\ pc = "idle"
  /\ \E results \in StorageCategoryResults :
       /\ local' = [handler |-> "storage.getCategorySpend", read |-> TRUE,
                    results |-> results]
       /\ RespondAtOnce(200, StorageCategoryBody(results))
  /\ pc' = "done"
  /\ UNCHANGED <<now, clock, store, upstream, seedData, seed>>

----------------------------------------------------------------------------
(* Specification of the category-spend report *)

\* amounts in 1/CentUnits cents: whole cents, a fraction of a cent, a credit
LineItemAmounts == {2 * CentUnits, CentUnits, 1, -CentUnits}

CategoryInit ==
  /\ now = [year |-> 2026, month |-> 10, tick |-> 1]
  /\ clock = 5
  /\ vendors = {[id |-> 1, name |-> <<"A", "c", "m", "e">>]}
  /\ customers = {[id |-> 2, name |-> <<"B", "o", "b">>]}
  /\ categories = {[id |-> 3, name |-> "Office"],
                   [id |-> 4, name |-> "Uncategorized"]}
  /\ invoices = {[id |-> 5, invoiceNumber |-> <<"I", "5">>, vendorId |-> 1,
                  customerId |-> 2, issueDate |-> NewDate(2026, 10),
                  dueDate |-> NewDate(2026, 11), status |-> "pending",
                  total |-> 4 * CentUnits, createdAt |-> 5]}
  /\ lineItems = {}
  /\ payments = {}
  /\ InitIdle

CategoryInsertLineItem ==
  /\ WriterEnabled
  /\ Cardinality(lineItems) < MaxLineItems
  /\ \E c \in {Null, 3, 4}, a \in LineItemAmounts : InsertLineItem(5, c, a)
  /\ UNCHANGED <<now, vendors, customers, categories, invoices, payments,
                 pc, local, res, sent, upstream, seedData, seed>>

CategoryNext ==
  \/ Finish
  \/ CategoryInsertLineItem
  \/ CategoryRequest
  \/ CategoryFail
  \/ StorageCategoryRequest

SpecCategory == CategoryInit /\ [][CategoryNext]_vars

RECURSIVE SeqSum(_)
SeqSum(q) == IF q = <<>> THEN 0 ELSE q[Len(q)] + SeqSum(SubSeq(q, 1, Len(q) - 1))

\* the bucket the claim gives a line item of the store
BucketOfLineItem(item) ==
  IF item.categoryId = Null THEN "Uncategorized"
  ELSE (CHOOSE c \in categories : c.id = item.categoryId).name

\* C5: a category-spend response computed from the line items puts every
\* line item of the store in exactly one bucket (its category's name, or
\* "Uncategorized"), and when all amounts are whole cents the bucket values
\* add up to the sum of the line item amounts.
CategorySpendReconciles ==
  (pc = "done" /\ res.status = 200 /\ local.handler = "category-spend"
     /\ local.read) =>
    /\ \A item \in lineItems :
         Cardinality({k \in 1..Len(res.body.labels) :
                        res.body.labels[k] = BucketOfLineItem(item)}) = 1
    /\ Len(res.body.data) = Len(res.body.labels)
    /\ (\A item \in lineItems : item.amount % CentUnits = 0) =>
         SeqSum(res.body.data) = SetSum([item \in lineItems |-> item.amount], lineItems)

\* whole-cent items in two buckets, one bucket holding both an item without
\* a category and an item of the category named "Uncategorized"
CategorySpendWitness ==
  /\ pc = "done" /\ res.status = 200 /\ local.handler = "category-spend"
  /\ local.read
  /\ Len(res.body.labels) = 2
  /\ \A item \in lineItems : item.amount % CentUnits = 0
  /\ \E a, b \in lineItems : a.categoryId = Null /\ b.categoryId = 4
  /\ SeqSum(res.body.data) # 0

\* C29: the labels of a storage.getCategorySpend result are pairwise
\* distinct, and the line items without a category are all under the one
\* label "Uncategorized".
StorageCategoryLabelsDistinct ==
  (pc = "done" /\ local.handler = "storage.getCategorySpend") =>
    \A i, j \in DOMAIN res.body.labels :
      res.body.labels[i] = res.body.labels[j] => i = j

----------------------------------------------------------------------------
(* GET /api/vendors/top10: apps/api/src/routes/vendors.ts, and              *)
(* DatabaseStorage.getTopVendors(10) served by server/routes.ts             *)

TopVendorLimit == 10

\* prisma.invoice.findMany: not cancelled, include vendor, in row order
VendorInvoiceQuery ==
  LET rows == RowsById({i \in invoices : i.status # "cancelled"})
  IN [k \in 1..Len(rows) |->
        [vendorId |-> rows[k].vendorId, total |-> rows[k].total,
         vendor |-> [name |-> VendorName(rows[k])]]]

\* the keys of vendorTotals in insertion order
RECURSIVE VendorKeys(_)
VendorKeys(rows) ==
  IF rows = <<>> THEN <<>>
  ELSE LET before == VendorKeys(SubSeq(rows, 1, Len(rows) - 1))
           id == rows[Len(rows)].vendorId
       IN IF \E i \in 1..Len(before) : before[i] = id
          THEN before ELSE Append(before, id)

\* vendorTotals.get(vendorId) after the forEach
VendorEntry(rows, vendorId) ==
  LET mine == {k \in 1..Len(rows) : rows[k].vendorId = vendorId}
  IN [name |-> rows[CHOOSE k \in mine : TRUE].vendor.name,
      total |-> SetSum([k \in mine |-> rows[k].total], mine)]

TakeAll(entries, limit) == entries

\* slice(0, 10), limit(10)
Take(entries, limit) ==
  SubSeq(entries, 1, IF Len(entries) < limit THEN Len(entries) ELSE limit)

\* sort by total descending, the first 10, rounded
TopVendorsBody(rows) ==
  LET keys == VendorKeys(rows)
      top == Take(SortByTotalDesc([k \in 1..Len(keys) |->
                                     VendorEntry(rows, keys[k])]),
                  TopVendorLimit)
  IN [labels |-> [k \in 1..Len(top) |-> top[k].name],
      data |-> [k \in 1..Len(top) |-> Round2(top[k].total)]]

\* router.get('/top10') of routes/vendors.ts
TopVendorsRoute ==
  /\ pc = "idle"
  /\ local' = [handler |-> "routes/vendors.ts", invoices |-> VendorInvoiceQuery]
  /\ RespondAtOnce(200, TopVendorsBody(VendorInvoiceQuery))
  /\ pc' = "done"
  /\ UNCHANGED <<now, clock, store, upstream, seedData, seed>>

\* storage.getTopVendors(10): the same sums, grouped, ordered and limited
\* by the store (vendors of equal sums in the store's row order)
TopVendorsStorage ==
  /\ pc = "idle"
  /\ local' = [handler |-> "storage.getTopVendors", invoices |-> VendorInvoiceQuery]
  /\ RespondAtOnce(200, TopVendorsBody(VendorInvoiceQuery))
  /\ pc' = "done"
  /\ UNCHANGED <<now, clock, store, upstream, seedData, seed>>

\* the query throws: an empty chart from the route, 500 from server/routes.ts
TopVendorsFail ==
  /\ pc = "idle"
  /\ \/ /\ local' = [handler |-> "routes/vendors.ts", invoices |-> <<>>]
        /\ RespondAtOnce(200, [labels |-> <<>>, data |-> <<>>])
     \/ /\ local' = [handler |-> "storage.getTopVendors", invoices |-> <<>>]
        /\ RespondAtOnce(500, [error |-> "Failed to fetch top vendors"])
  /\ pc' = "done"
  /\ UNCHANGED <<now, clock, store, upstream, seedData, seed>>

----------------------------------------------------------------------------
(* Specification of the top-vendors report over seeded stores *)

\* input files of the seed script: one invoice per record
VendorSeedFiles ==
  {[i \in 1..MaxSeedRecords |->
      [vendor |-> i, status |-> "pending", total |-> i * CentUnits]],
   [i \in 1..MaxSeedRecords |->
      [vendor |-> i, status |-> IF i % 4 = 0 THEN "cancelled" ELSE "paid",
       total |-> (MaxSeedRecords - i) * 3 - 4]],
   [i \in 1..MaxSeedRecords |->
      [vendor |-> (i % 3) + 1, status |-> "overdue", total |-> (i % 4) + 1]]}

VendorsInit ==
  /\ now = [year |-> 2026, month |-> 10, tick |-> 1]
  /\ clock = 1
  /\ vendors = {}
  /\ customers = {[id |-> 1, name |-> <<"B", "o", "b">>]}
  /\ categories = {}
  /\ invoices = {}
  /\ lineItems = {}
  /\ payments = {}
  /\ pc = "idle"
  /\ local = NoLocal
  /\ res = NoResponse
  /\ sent = 0
  /\ upstream = <<>>
  /\ seedData \in VendorSeedFiles
  /\ seed = [NoSeed EXCEPT !.status = "running", !.runs = 1]

\* one record of the seed script's loop: the vendor upsert by name, then
\* the invoice; the input's amount comes with or without a fraction of a
\* cent
VendorsSeedRecord ==
  /\ WriterEnabled
  /\ seedData # <<>>
  /\ \E extra \in {0, 1} :
       LET d == Head(seedData)
           name == <<"V">> \o Decimal(d.vendor)
           known == {v \in vendors : v.name = name}
           vendor == IF known = {} THEN [id |-> clock + 1, name |-> name]
                     ELSE CHOOSE v \in known : TRUE
       IN /\ vendors' = vendors \cup {vendor}
          /\ invoices' = invoices \cup
               {[id |-> clock + 2, invoiceNumber |-> <<"I">> \o Decimal(clock + 2),
                 vendorId |-> vendor.id, customerId |-> 1,
                 issueDate |-> NewDate(2026, 9), dueDate |-> NewDate(2026, 10),
                 status |-> d.status, total |-> d.total + extra,
                 createdAt |-> clock + 2]}
          /\ clock' = clock + 2
  /\ seedData' = Tail(seedData)
  /\ UNCHANGED <<now, customers, categories, lineItems, payments,
                 pc, local, res, sent, upstream, seed>>

VendorsNext ==
  \/ Finish
  \/ VendorsSeedRecord
  \/ TopVendorsRoute
  \/ TopVendorsStorage
  \/ TopVendorsFail

SpecVendors == VendorsInit /\ [][VendorsNext]_vars

\* C6: a top-vendors response has at most 10 entries, as many labels as
\* values, and values that never increase from one entry to the next.
TopVendorsSortedAtMostTen ==
  (pc = "done" /\ res.status = 200) =>
    /\ Len(res.body.labels) <= 10
    /\ Len(res.body.data) = Len(res.body.labels)
    /\ \A i \in 1..(Len(res.body.data) - 1) :
         res.body.data[i] >= res.body.data[i + 1]

\* more than 10 vendors hold non-cancelled invoices; the response has 10
\* entries and its values differ
TopVendorsWitness ==
  /\ pc = "done" /\ res.status = 200
  /\ Cardinality({i.vendorId : i \in {j \in invoices : j.status # "cancelled"}}) > 10
  /\ Len(res.body.data) = 10
  /\ res.body.data[1] > res.body.data[10]

----------------------------------------------------------------------------
(* POST /api/chat-with-data: apps/api/src/routes/chat.ts, and the handler   *)
(* of the same path in server/routes.ts                                     *)

\* obj.key, obj?.key
Prop(obj, key) == IF key \in DOMAIN obj THEN obj[key] ELSE Undefined

\* JavaScript truthiness of the values above
Truthy(v) ==
  IF "string" \in DOMAIN v THEN v.string # ""
  ELSE IF "null" \in DOMAIN v \/ "undefined" \in DOMAIN v THEN FALSE
  ELSE TRUE

\* a || b
Or(a, b) == IF Truthy(a) THEN a ELSE b

ChatHandlers == {"routes/chat.ts", "server/routes.ts"}

\* error.message of axios for a response outside 2xx
AxiosStatusMessage(status) ==
  Str("Request failed with status code " \o ToString(status))

ChatErrorMessageSkipDetail(handler, data, message) ==
  Or(Prop(data, "error"), Or(Prop(data, "message"), message))

\* data?.detail || data?.error || data?.message || error.message, and
\* error.response.data?.error || error.message in server/routes.ts
ChatErrorMessage(handler, data, message) ==
  IF handler = "routes/chat.ts"
  THEN Or(Prop(data, "detail"),
          Or(Prop(data, "error"), Or(Prop(data, "message"), message)))
  ELSE Or(Prop(data, "error"), message)

ChatSuccessBodyPicked(data) ==
  ("sql" :> Prop(data, "sql")) @@ ("rows" :> Prop(data, "rows"))

\* res.json(response.data)
ChatSuccessBody(data) == data

ChatQueryMissingOnly(body) == "query" \notin DOMAIN body

\* !query
ChatQueryMissing(body) == ~Truthy(Prop(body, "query"))

\* the handler up to the await of axios.post
ChatRequest(handler, body) ==
  /\ pc = "idle"
  /\ IF ChatQueryMissing(body)
     THEN /\ local' = [handler |-> handler, body |-> body,
                       response |-> Undefined, error |-> Undefined]
          /\ RespondAtOnce(400, [error |-> "Query is required"])
          /\ pc' = "done"
          /\ UNCHANGED upstream
     ELSE /\ Len(upstream) < MaxChatRequests
          /\ local' = [handler |-> handler, body |-> body,
                       response |-> Undefined, error |-> Undefined]
          /\ upstream' = Append(upstream,
               [url |-> "/query", data |-> [query |-> body["query"]]])
          /\ pc' = "chat_upstream"
          /\ res' = NoResponse
          /\ sent' = 0
  /\ UNCHANGED <<now, clock, store, seedData, seed>>

\* axios.post resolves: the upstream answered with a 2xx status
ChatUpstreamSuccess(status, data) ==
  /\ pc = "chat_upstream"
  /\ local' = [local EXCEPT !.response = [status |-> status, data |-> data]]
  /\ Respond(200, ChatSuccessBody(data))
  /\ pc' = "done"
  /\ UNCHANGED <<now, clock, store, upstream, seedData, seed>>

\* axios.post rejects with error.response: a status outside 2xx
ChatUpstreamHttpError(status, data) ==
  /\ pc = "chat_upstream"
  /\ local' = [local EXCEPT !.error =
       [message |-> AxiosStatusMessage(status),
        response |-> [status |-> status, data |-> data]]]
  /\ Respond(status,
       [error |-> "Vanna AI service error",
        message |-> ChatErrorMessage(local.handler, data,
                                     AxiosStatusMessage(status))])
  /\ pc' = "done"
  /\ UNCHANGED <<now, clock, store, upstream, seedData, seed>>

ChatUpstreamUnreachableEcho(message) ==
  /\ pc = "chat_upstream"
  /\ local' = [local EXCEPT !.error =
       [message |-> Str(message), response |-> Undefined]]
  /\ Respond(503,
       [error |-> "Vanna AI service unavailable", message |-> message])
  /\ pc' = "done"
  /\ UNCHANGED <<now, clock, store, upstream, seedData, seed>>

\* axios.post rejects without error.response: refused, unresolved, or the
\* 30 second timeout
ChatUpstreamUnreachable(message) ==
  /\ pc = "chat_upstream"
  /\ local' = [local EXCEPT !.error =
       [message |-> Str(message), response |-> Undefined]]
  /\ Respond(503,
       [error |-> "Vanna AI service unavailable",
        message |-> "Please ensure the Vanna service is running on port 8000"])
  /\ pc' = "done"
  /\ UNCHANGED <<now, clock, store, upstream, seedData, seed>>

----------------------------------------------------------------------------
(* Specification of the chat proxy *)

ChatBodies ==
  {<<>>, "query" :> Str(""), "query" :> JsonNull,
   "query" :> Str("total spend"), "query" :> Str(" ")}

UpstreamBodies ==
  {("sql" :> Str("SELECT 1")) @@ ("rows" :> <<>>),
   ("sql" :> Str("SELECT 1")) @@ ("rows" :> <<>>) @@ ("chart" :> Str("bar")),
   "answer" :> Str("42"),
   Str("")}

UpstreamErrorBodies ==
  UNION {[keys -> {Str(""), Str("x"), Str("y")}] :
           keys \in SUBSET {"detail", "error", "message"}}
    \cup {Str("<html>"), Str("")}

UpstreamErrorStatuses == {400, 422, 500}

TransportMessages ==
  {"connect ECONNREFUSED 127.0.0.1:8000", "timeout of 30000ms exceeded"}

ChatInit ==
  /\ now = [year |-> 2026, month |-> 10, tick |-> 1]
  /\ InitStoreOneVendor
  /\ InitIdle

\* the awaited call settles
ChatSettle ==
  \/ \E status \in {200, 201}, data \in UpstreamBodies :
       ChatUpstreamSuccess(status, data)
  \/ \E status \in UpstreamErrorStatuses, data \in UpstreamErrorBodies :
       ChatUpstreamHttpError(status, data)
  \/ \E message \in TransportMessages : ChatUpstreamUnreachable(message)

ChatNext ==
  \/ Finish
  \/ \E handler \in ChatHandlers, body \in ChatBodies :
       ChatRequest(handler, body)
  \/ ChatSettle

SpecChat == ChatInit /\ [][ChatNext]_vars

\* axios settles every call within its timeout, and the handler's
\* continuation then runs
SpecChatLive == SpecChat /\ WF_vars(ChatSettle)

\* C7: a request whose query is missing or empty is answered 400 with an
\* error body, and no request carrying a missing or empty query ever
\* reaches the external service.
ChatRejectsMissingQuery ==
  /\ \A k \in 1..Len(upstream) :
       upstream[k].data.query \notin {Str(""), JsonNull, Undefined}
  /\ (pc \in {"chat_upstream", "done"}
      /\ ("query" \notin DOMAIN local.body \/ local.body["query"] = Str("")))
       => /\ pc = "done"
          /\ sent = 1
          /\ res = [status |-> 400, body |-> [error |-> "Query is required"]]
          /\ local.response = Undefined /\ local.error = Undefined

\* an empty query is rejected after an earlier query was forwarded: the
\* external service has still received only that earlier request
ChatRejectsWitness ==
  /\ pc = "done" /\ res.status = 400
  /\ local.body = ("query" :> Str(""))
  /\ Len(upstream) = 1

\* C8: when the upstream call fails without an HTTP response, the response
\* is 503 with one fixed error and guidance message, whatever the query.
ChatUnavailableFixed ==
  (pc = "done" /\ "query" \in DOMAIN local.body
   /\ "message" \in DOMAIN local.error /\ local.error.response = Undefined)
    => res = [status |-> 503,
              body |-> [error |-> "Vanna AI service unavailable",
                        message |-> "Please ensure the Vanna service is running on port 8000"]]

\* the 30 second timeout fires on a forwarded query
ChatUnavailableWitness ==
  /\ pc = "done" /\ res.status = 503
  /\ local.body = ("query" :> Str("total spend"))
  /\ local.error.message = Str("timeout of 30000ms exceeded")

\* C9 as stated: the relayed message is the first of detail, error, message
\* that the upstream body holds, else the transport error message.
ChatMessageFirstPresent ==
  (pc = "done" /\ "response" \in DOMAIN local.error
   /\ "status" \in DOMAIN local.error.response)
    => LET d == local.error.response.data
       IN /\ res.status = local.error.response.status
          /\ res.body.message =
               IF "detail" \in DOMAIN d THEN d["detail"]
               ELSE IF "error" \in DOMAIN d THEN d["error"]
               ELSE IF "message" \in DOMAIN d THEN d["message"]
               ELSE local.error.message

\* C9: when the upstream answers with an HTTP error status s, the response
\* status is s; the message is the first non-empty of the upstream body's
\* detail, error, message in routes/chat.ts, the upstream body's error if
\* non-empty in server/routes.ts, and else the transport error message.
ChatRelaysUpstreamError ==
  (pc = "done" /\ "response" \in DOMAIN local.error
   /\ "status" \in DOMAIN local.error.response)
    => LET d == local.error.response.data
           NonEmpty(k) == k \in DOMAIN d /\ d[k] # Str("")
       IN /\ res.status = local.error.response.status
          /\ res.body.error = "Vanna AI service error"
          /\ res.body.message =
               IF local.handler = "routes/chat.ts"
               THEN IF NonEmpty("detail") THEN d["detail"]
                    ELSE IF NonEmpty("error") THEN d["error"]
                    ELSE IF NonEmpty("message") THEN d["message"]
                    ELSE local.error.message
               ELSE IF NonEmpty("error") THEN d["error"]
                    ELSE local.error.message

\* the upstream answers 422 with an empty detail and an error text: the
\* error text is relayed
ChatRelayWitness ==
  /\ pc = "done" /\ res.status = 422
  /\ local.handler = "routes/chat.ts"
  /\ "response" \in DOMAIN local.error
  /\ local.error.response.data = ("detail" :> Str("")) @@ ("error" :> Str("x"))
  /\ res.body.message = Str("x")

\* C10: a successful upstream answer is relayed with status 200 and an
\* identical body, and every request receives exactly one response: none
\* before the handler answers, one when it has, and it always answers.
ChatVerbatimExactlyOnce ==
  /\ []((pc = "done" /\ "data" \in DOMAIN local.response)
          => /\ res.status = 200
             /\ res.body = local.response.data)
  /\ [](/\ pc = "chat_upstream" => sent = 0
        /\ pc = "done" => sent = 1)
  /\ (pc = "chat_upstream" ~> pc = "done")

\* the upstream answers 201 with a field beyond sql and rows: the response
\* is 200 and carries the field
ChatVerbatimWitness ==
  /\ pc = "done" /\ res.status = 200 /\ sent = 1
  /\ "data" \in DOMAIN local.response
  /\ local.response.status = 201
  /\ "chart" \in DOMAIN res.body

----------------------------------------------------------------------------
(* GET /api/stats: apps/api/src/routes/stats.ts, its earlier version        *)
(* (part_007), and DatabaseStorage.getStats served by server/routes.ts      *)

StatsHandlers == {"routes/stats.ts", "part_007", "storage.getStats"}

\* an average kept exact: a sum over a count
Ratio(sum, count) == [num |-> sum, den |-> count]
ZeroRatio == [num |-> 0, den |-> 1]

\* aggregate / select of the invoices issued this year, not cancelled:
\* _sum.total and _avg.total are null when no row qualifies
StatsYtdQuery(n) ==
  LET rows == {i \in invoices : /\ DateGe(i.issueDate, NewDate(n.year, 0))
                                /\ i.status # "cancelled"}
  IN [rows |-> Cardinality(rows),
      sum |-> SetSum([i \in rows |-> i.total], rows)]

StatsCountQueryAll == Cardinality(invoices)

\* prisma.invoice.count / select count(): not cancelled
StatsCountQuery == Cardinality({i \in invoices : i.status # "cancelled"})

\* _sum.total || 0, _avg.total || 0 with the count (Number(...) || 0 in
\* storage.getStats)
StatsBody(ytd, totalInvoices) ==
  [totalSpendYTD |-> ytd.sum,
   totalInvoices |-> totalInvoices,
   documentsUploaded |-> totalInvoices,
   avgInvoiceAmount |-> IF ytd.rows = 0 \/ ytd.sum = 0 THEN ZeroRatio
                        ELSE Ratio(ytd.sum, ytd.rows)]

StatsZeroBody ==
  [totalSpendYTD |-> 0, totalInvoices |-> 0, documentsUploaded |-> 0,
   avgInvoiceAmount |-> ZeroRatio]

StatsFailureAlways500(handler) ==
  [status |-> 500, body |-> [error |-> "Failed to fetch statistics"]]

\* the catch block: the zeroed object from routes/stats.ts, 500 from
\* part_007 and server/routes.ts
StatsFailure(handler) ==
  IF handler = "routes/stats.ts"
  THEN [status |-> 200, body |-> StatsZeroBody]
  ELSE [status |-> 500, body |-> [error |-> "Failed to fetch statistics"]]

\* the request arrives: the year's start and the first query
StatsRequest(handler) ==
  /\ pc = "idle"
  /\ local' = [handler |-> handler, failed |-> FALSE, readAt |-> clock,
               ytd |-> StatsYtdQuery(now)]
  /\ res' = NoResponse
  /\ sent' = 0
  /\ pc' = "stats_count"
  /\ UNCHANGED <<now, clock, store, upstream, seedData, seed>>

\* the count query and the response
StatsRespond ==
  /\ pc = "stats_count"
  /\ Respond(200, StatsBody(local.ytd, StatsCountQuery))
  /\ pc' = "done"
  /\ UNCHANGED <<now, clock, store, local, upstream, seedData, seed>>

\* a query throws: the first one, or the count after it
StatsFail ==
  /\ \/ /\ pc = "idle"
        /\ \E handler \in StatsHandlers :
             /\ local' = [handler |-> handler, failed |-> TRUE,
                          readAt |-> clock, ytd |-> [rows |-> 0, sum |-> 0]]
             /\ RespondAtOnce(StatsFailure(handler).status,
                              StatsFailure(handler).body)
     \/ /\ pc = "stats_count"
        /\ local' = [local EXCEPT !.failed = TRUE]
        /\ Respond(StatsFailure(local.handler).status,
                   StatsFailure(local.handler).body)
  /\ pc' = "done"
  /\ UNCHANGED <<now, clock, store, upstream, seedData, seed>>

----------------------------------------------------------------------------
(* Specification of the statistics under concurrent writes *)

StatsInvoiceInputs ==
  {[year |-> 0, status |-> "paid", total |-> 3],
   [year |-> 0, status |-> "cancelled", total |-> 5],
   [year |-> -1, status |-> "pending", total |-> 4],
   [year |-> 0, status |-> "pending", total |-> 0]}

StatsInit ==
  /\ now \in {[year |-> 2026, month |-> 0, tick |-> 1],
              [year |-> 2026, month |-> 10, tick |-> 1]}
  /\ InitStoreOneVendor
  /\ InitIdle

StatsInsertInvoice ==
  /\ WriterEnabled
  /\ Cardinality(invoices) < MaxStatsInvoices
  /\ \E k \in StatsInvoiceInputs :
       InsertInvoice(NextNumber("I"), 1, 2, NewDate(now.year + k.year, 0),
                     NewDate(now.year + k.year, 1), k.status, k.total)
  /\ UNCHANGED <<now, vendors, customers, categories, lineItems, payments,
                 pc, local, res, sent, upstream, seedData, seed>>

StatsNext ==
  \/ Finish
  \/ StatsInsertInvoice
  \/ \E handler \in StatsHandlers : StatsRequest(handler)
  \/ StatsRespond
  \/ StatsFail

SpecStats == StatsInit /\ [][StatsNext]_vars

\* C13: when a query of the routes/stats.ts handler fails, the response is
\* 200 with the four values zero, and that handler never answers 5xx.
StatsFailureIsZeroed ==
  (pc = "done" /\ local.handler = "routes/stats.ts") =>
    /\ res.status = 200
    /\ local.failed =>
         res.body = [totalSpendYTD |-> 0, totalInvoices |-> 0,
                     documentsUploaded |-> 0,
                     avgInvoiceAmount |-> [num |-> 0, den |-> 1]]

\* the count query fails after the first query found a spend: the response
\* is the zeroed object
StatsFailureWitness ==
  /\ pc = "done" /\ local.handler = "routes/stats.ts"
  /\ local.failed /\ local.ytd.sum > 0
  /\ res.status = 200 /\ res.body.totalSpendYTD = 0

\* C21: in a stats response computed from the store, documentsUploaded
\* equals totalInvoices, which is the number of non-cancelled invoices of
\* any issue date; totalSpendYTD is the sum of total over the non-cancelled
\* invoices issued on or after January 1 of the current year that the first
\* query read; with no such invoice the spend and the average are 0, and
\* with no non-cancelled invoice all four values are 0.
StatsCountsAndSpend ==
  (pc = "done" /\ res.status = 200 /\ "ytd" \in DOMAIN local /\ ~local.failed) =>
    LET live == {i \in invoices : i.status # "cancelled"}
        ytd == {i \in live : /\ i.createdAt <= local.readAt
                             /\ i.issueDate.year >= now.year}
    IN /\ res.body.documentsUploaded = res.body.totalInvoices
       /\ res.body.totalInvoices = Cardinality(live)
       /\ res.body.totalSpendYTD = SetSum([i \in ytd |-> i.total], ytd)
       /\ ytd = {} =>
            /\ res.body.totalSpendYTD = 0
            /\ res.body.avgInvoiceAmount = [num |-> 0, den |-> 1]
       /\ ytd # {} /\ res.body.totalSpendYTD # 0 =>
            res.body.avgInvoiceAmount =
              [num |-> res.body.totalSpendYTD, den |-> Cardinality(ytd)]

\* an invoice of last year and a paid invoice of this year: both are
\* counted, only the second is spend
StatsWitness ==
  /\ pc = "done" /\ res.status = 200 /\ "ytd" \in DOMAIN local /\ ~local.failed
  /\ res.body.totalInvoices = 2
  /\ res.body.totalSpendYTD = 3
  /\ \E i \in invoices : i.issueDate.year < now.year /\ i.status # "cancelled"

----------------------------------------------------------------------------
(* The five aggregate reports over one store: stats, trends, top vendors,   *)
(* category spend and cash outflow, as mounted by the API (part_005)        *)

\* what each report answers from the store as it is
ReportOutputs ==
  [stats |-> StatsBody(StatsYtdQuery(now), StatsCountQuery),
   trends |-> [basisKey \in {"issueDate", "dueDate"} |->
                 TrendsBody(TrendsMonths(now),
                            TrendsInvoiceQuery(basisKey, TrendsMonths(now)),
                            basisKey)],
   vendors |-> TopVendorsBody(VendorInvoiceQuery),
   categories |-> CategoryBody(CategoryLineItemQuery),
   cash |-> CashBody(CashMonths(now), CashInvoiceQuery(CashMonths(now)),
                     CashPaymentQuery(CashInvoiceQuery(CashMonths(now))))]

ReportsInit ==
  /\ now = [year |-> 2026, month |-> 10, tick |-> 1]
  /\ InitStoreOneVendor
  /\ InitIdle

ReportRows ==
  Cardinality(invoices) + Cardinality(lineItems) + Cardinality(payments)

ReportInsertInvoice ==
  /\ WriterEnabled
  /\ ReportRows < MaxReportWrites
  /\ \E status \in {"pending", "cancelled"} :
       InsertInvoice(NextNumber("I"), 1, 2, NewDate(now.year, now.month),
                     NewDate(now.year, now.month + 1), status, 3)
  /\ UNCHANGED <<now, vendors, customers, categories, lineItems, payments,
                 pc, local, res, sent, upstream, seedData, seed>>

ReportInsertLineItem ==
  /\ WriterEnabled
  /\ ReportRows < MaxReportWrites
  /\ \E i \in invoices : InsertLineItem(i.id, Null, 3)
  /\ UNCHANGED <<now, vendors, customers, categories, invoices, payments,
                 pc, local, res, sent, upstream, seedData, seed>>

ReportInsertPayment ==
  /\ WriterEnabled
  /\ ReportRows < MaxReportWrites
  /\ \E i \in invoices : InsertPayment(i.id, 1)
  /\ UNCHANGED <<now, vendors, customers, categories, invoices, lineItems,
                 pc, local, res, sent, upstream, seedData, seed>>

ReportsNext ==
  \/ Finish
  \/ ReportInsertInvoice
  \/ ReportInsertLineItem
  \/ ReportInsertPayment
  \/ StatsRequest("routes/stats.ts")
  \/ StatsRespond
  \/ TrendsRequest
  \/ TopVendorsRoute
  \/ CategoryRequest
  \/ CashRequest
  \/ CashPayments

SpecReports == ReportsInit /\ [][ReportsNext]_vars

\* a step that only adds a cancelled invoice, or a line item or a payment of
\* a cancelled invoice
CancelledOnlyStep ==
  /\ invoices \subseteq invoices'
  /\ lineItems \subseteq lineItems'
  /\ payments \subseteq payments'
  /\ <<invoices, lineItems, payments>> # <<invoices', lineItems', payments'>>
  /\ \A i \in invoices' \ invoices : i.status = "cancelled"
  /\ \A l \in lineItems' \ lineItems :
       \E i \in invoices : i.id = l.invoiceId /\ i.status = "cancelled"
  /\ \A p \in payments' \ payments :
       \E i \in invoices : i.id = p.invoiceId /\ i.status = "cancelled"

\* C19: adding a cancelled invoice, or a line item or a payment of a
\* cancelled invoice, leaves the output of every aggregate report unchanged.
CancelledNeverCounted ==
  [][CancelledOnlyStep => ReportOutputs' = ReportOutputs]_vars

----------------------------------------------------------------------------
(* The Prisma seed script (apps/api/prisma/seed.ts): main's loop over the   *)
(* input records. The tables are threaded through the statements of one     *)
(* record as a record st of the six tables and the write clock.             *)

StoreNow ==
  [vendors |-> vendors, customers |-> customers, categories |-> categories,
   invoices |-> invoices, lineItems |-> lineItems, payments |-> payments,
   clock |-> clock]

\* upsert({where: {name}, update: {}, create: {name}}) on a table of names
UpsertByName(st, table, name) ==
  IF \E r \in st[table] : r.name = name THEN st
  ELSE [st EXCEPT ![table] = @ \cup {[id |-> st.clock + 1, name |-> name]},
                  !.clock = @ + 1]

IdByName(st, table, name) == (CHOOSE r \in st[table] : r.name = name).id

\* update: { status, total }
SeedInvoiceUpdate(inv, d) ==
  [inv EXCEPT !.status = d.status, !.total = d.total]

\* prisma.invoice.upsert({where: {invoiceNumber}, update, create})
SeedUpsertInvoice(st, d) ==
  IF \E i \in st.invoices : i.invoiceNumber = d.invoiceNumber
  THEN [st EXCEPT !.invoices =
          {IF i.invoiceNumber = d.invoiceNumber THEN SeedInvoiceUpdate(i, d)
           ELSE i : i \in st.invoices}]
  ELSE [st EXCEPT
          !.invoices = @ \cup
            {[id |-> st.clock + 1, invoiceNumber |-> d.invoiceNumber,
              vendorId |-> IdByName(st, "vendors", d.vendor),
              customerId |-> IdByName(st, "customers", d.customer),
              issueDate |-> NewDate(2026, 9), dueDate |-> NewDate(2026, 10),
              status |-> d.status, subtotal |-> d.subtotal, tax |-> d.tax,
              total |-> d.total, createdAt |-> st.clock + 1]},
          !.clock = @ + 1]

SeedInvoiceId(st, d) ==
  (CHOOSE i \in st.invoices : i.invoiceNumber = d.invoiceNumber).id

\* prisma.lineItem.create
SeedLineItemCreate(st, d, item) ==
  [st EXCEPT !.lineItems = @ \cup
     {[id |-> st.clock + 1, invoiceId |-> SeedInvoiceId(st, d),
       categoryId |-> IF item.category = <<>> THEN Null
                      ELSE IdByName(st, "categories", item.category),
       amount |-> item.amount]},
             !.clock = @ + 1]

\* prisma.payment.create
SeedPaymentCreate(st, d, payment) ==
  [st EXCEPT !.payments = @ \cup
     {[id |-> st.clock + 1, invoiceId |-> SeedInvoiceId(st, d),
       amount |-> payment.amount, createdAt |-> st.clock + 1]},
             !.clock = @ + 1]

\* the statements the loop body runs for one record, in order
RECURSIVE SeedLineItemSteps(_)
SeedLineItemSteps(items) ==
  IF items = <<>> THEN <<>>
  ELSE (IF items[1].category = <<>> THEN <<>>
        ELSE <<[op |-> "category", item |-> items[1]]>>)
       \o <<[op |-> "lineItem", item |-> items[1]]>>
       \o SeedLineItemSteps(Tail(items))

SeedSteps(d) ==
  <<[op |-> "vendor"], [op |-> "customer"], [op |-> "invoice"]>>
    \o SeedLineItemSteps(d.lineItems)
    \o [k \in 1..Len(d.payments) |-> [op |-> "payment", item |-> d.payments[k]]]

SeedStatement(st, d, step) ==
  CASE step.op = "vendor" -> UpsertByName(st, "vendors", d.vendor)
    [] step.op = "customer" -> UpsertByName(st, "customers", d.customer)
    [] step.op = "invoice" -> SeedUpsertInvoice(st, d)
    [] step.op = "category" -> UpsertByName(st, "categories", step.item.category)
    [] step.op = "lineItem" -> SeedLineItemCreate(st, d, step.item)
    [] step.op = "payment" -> SeedPaymentCreate(st, d, step.item)

\* the store after the first n statements of the record
RECURSIVE SeedRun(_, _, _)
SeedRun(st, d, n) ==
  IF n = 0 THEN st
  ELSE SeedStatement(SeedRun(st, d, n - 1), d, SeedSteps(d)[n])

SeedCounts ==
  [vendors |-> Cardinality(vendors), customers |-> Cardinality(customers),
   categories |-> Cardinality(categories), invoices |-> Cardinality(invoices),
   lineItems |-> Cardinality(lineItems), payments |-> Cardinality(payments)]

\* the input files: parsed JSON arrays of records (a null element included)
SeedRecordA ==
  [invoiceNumber |-> <<"1">>, vendor |-> <<"A", "c", "m", "e">>,
   customer |-> <<"B", "o", "b">>, status |-> "pending",
   subtotal |-> 10, tax |-> 2, total |-> 12,
   lineItems |-> <<[amount |-> 10, category |-> <<"O">>]>>, payments |-> <<>>]

SeedRecordAPaid ==
  [invoiceNumber |-> <<"1">>, vendor |-> <<"A", "c", "m", "e">>,
   customer |-> <<"B", "o", "b">>, status |-> "paid",
   subtotal |-> 20, tax |-> 4, total |-> 24,
   lineItems |-> <<[amount |-> 20, category |-> <<>>]>>,
   payments |-> <<[amount |-> 24]>>]

SeedRecordB ==
  [invoiceNumber |-> <<"2">>, vendor |-> <<"Z">>,
   customer |-> <<"B", "o", "b">>, status |-> "overdue",
   subtotal |-> 6, tax |-> 0, total |-> 6,
   lineItems |-> <<>>, payments |-> <<>>]

SeedFiles ==
  {<<SeedRecordA>>, <<SeedRecordAPaid>>, <<SeedRecordA, SeedRecordB>>,
   <<JsonNull, SeedRecordB>>}

SeedInit ==
  /\ now = [year |-> 2026, month |-> 10, tick |-> 1]
  /\ clock = 0
  /\ vendors = {}
  /\ customers = {}
  /\ categories = {}
  /\ invoices = {}
  /\ lineItems = {}
  /\ payments = {}
  /\ InitIdle

SeedStore(st) ==
  /\ vendors' = st.vendors
  /\ customers' = st.customers
  /\ categories' = st.categories
  /\ invoices' = st.invoices
  /\ lineItems' = st.lineItems
  /\ payments' = st.payments
  /\ clock' = st.clock

\* main(): read the input and enter the loop
SeedStart ==
  /\ seed.status \in {"idle", "done", "aborted"}
  /\ seed.runs < MaxSeedRuns
  /\ \E file \in SeedFiles :
       /\ seedData' = file
       /\ seed' = [seed EXCEPT !.status = "running", !.file = file,
                               !.runs = @ + 1, !.faulted = FALSE,
                               !.attempted = <<>>]
  /\ UNCHANGED <<now, clock, store, pc, local, res, sent, upstream>>

SeedPosition == Len(seed.file) - Len(seedData) + 1

\* one iteration of the loop whose statements all succeed
SeedRecord ==
  /\ seed.status = "running"
  /\ seedData # <<>>
  /\ Head(seedData) # JsonNull
  /\ LET d == Head(seedData)
     IN SeedStore(SeedRun(StoreNow, d, Len(SeedSteps(d))))
  /\ seedData' = Tail(seedData)
  /\ seed' = [seed EXCEPT !.attempted = Append(@, SeedPosition)]
  /\ UNCHANGED <<now, pc, local, res, sent, upstream>>

\* one iteration in which a statement throws: the statements before it are
\* committed, the catch block logs invoiceData.invoiceNumber and the loop
\* goes on with the next record
SeedRecordFails ==
  /\ seed.status = "running"
  /\ seedData # <<>>
  /\ Head(seedData) # JsonNull
  /\ ~seed.faulted
  /\ LET d == Head(seedData)
     IN \E n \in 0..(Len(SeedSteps(d)) - 1) :
          SeedStore(SeedRun(StoreNow, d, n))
  /\ seedData' = Tail(seedData)
  /\ seed' = [seed EXCEPT !.attempted = Append(@, SeedPosition),
                          !.faulted = TRUE]
  /\ UNCHANGED <<now, pc, local, res, sent, upstream>>

\* a null element: invoiceData.vendor throws inside the try, and the catch
\* block's invoiceData.invoiceNumber throws again, which leaves the loop
\* through main's outer catch (rethrow, process.exit(1))
SeedRecordNull ==
  /\ seed.status = "running"
  /\ seedData # <<>>
  /\ Head(seedData) = JsonNull
  /\ seed' = [seed EXCEPT !.status = "aborted",
                          !.attempted = Append(@, SeedPosition)]
  /\ UNCHANGED <<now, clock, store, pc, local, res, sent, upstream, seedData>>

\* the loop ends: the summary is printed
SeedFinish ==
  /\ seed.status = "running"
  /\ seedData = <<>>
  /\ seed' = [seed EXCEPT !.status = "done",
                          !.history = Append(@, [file |-> seed.file,
                                                 faulted |-> seed.faulted,
                                                 counts |-> SeedCounts])]
  /\ UNCHANGED <<now, clock, store, pc, local, res, sent, upstream, seedData>>

SeedNext ==
  \/ SeedStart
  \/ SeedRecord
  \/ SeedRecordFails
  \/ SeedRecordNull
  \/ SeedFinish

SpecSeed == SeedInit /\ [][SeedNext]_vars

\* C22: a second run of the seed on the same input leaves the counts of the
\* six tables as the first run left them
SeedIsIdempotent ==
  \A a, b \in DOMAIN seed.history :
    (a < b /\ seed.history[a].file = seed.history[b].file
       /\ ~seed.history[a].faulted /\ ~seed.history[b].faulted)
      => seed.history[a].counts = seed.history[b].counts

\* C24: every invoice the seed wrote from records with total = subtotal + tax
\* has total = subtotal + tax
SeedTotalIsSubtotalPlusTax ==
  \A i \in invoices : i.total = i.subtotal + i.tax

\* C28: the loop is never left before its last record: the run is not
\* aborted, and a finished run attempted each record of its input once
SeedNeverAborts ==
  /\ seed.status # "aborted"
  /\ seed.status = "done" =>
       seed.attempted = [k \in 1..Len(seed.file) |-> k]

----------------------------------------------------------------------------
(* The foreign keys of shared/schema.ts: inserts are checked against the    *)
(* referenced table, deletes follow the onDelete rule of each reference.    *)
(* local keeps the last statement and the tables it ran on.                 *)

DeleteInvoiceRowsKeepPayments(st, ids) ==
  [st EXCEPT !.invoices = {i \in @ : i.id \notin ids},
             !.lineItems = {l \in @ : l.invoiceId \notin ids}]

\* lineItems.invoiceId and payments.invoiceId: onDelete "cascade"
DeleteInvoiceRows(st, ids) ==
  [st EXCEPT !.invoices = {i \in @ : i.id \notin ids},
             !.lineItems = {l \in @ : l.invoiceId \notin ids},
             !.payments = {q \in @ : q.invoiceId \notin ids}]

\* invoices.vendorId: onDelete "cascade"
DeleteVendorRows(st, id) ==
  [DeleteInvoiceRows(st, {i.id : i \in {j \in st.invoices : j.vendorId = id}})
     EXCEPT !.vendors = {v \in @ : v.id # id}]

\* invoices.customerId: onDelete "cascade"
DeleteCustomerRows(st, id) ==
  [DeleteInvoiceRows(st, {i.id : i \in {j \in st.invoices : j.customerId = id}})
     EXCEPT !.customers = {c \in @ : c.id # id}]

\* lineItems.categoryId: onDelete "set null"
DeleteCategoryRows(st, id) ==
  [st EXCEPT !.categories = {c \in @ : c.id # id},
             !.lineItems = {IF l.categoryId = id
                            THEN [l EXCEPT !.categoryId = Null] ELSE l : l \in @}]

SchemaNames == {<<"A", "c", "m", "e">>, <<"Z">>}

SchemaStatement(op, id) == [op |-> op, id |-> id, before |-> StoreNow]

SchemaInit ==
  /\ now = [year |-> 2026, month |-> 10, tick |-> 1]
  /\ InitStoreOneVendor
  /\ InitIdle

\* insert into vendors, customers or categories: name is unique
SchemaInsertNamed ==
  /\ clock < 2 + MaxSchemaWrites
  /\ \E table \in {"vendors", "customers", "categories"}, name \in SchemaNames :
       /\ \A r \in StoreNow[table] : r.name # name
       /\ SeedStore(UpsertByName(StoreNow, table, name))
       /\ local' = SchemaStatement("insert", clock + 1)
  /\ UNCHANGED <<now, pc, res, sent, upstream, seedData, seed>>

SchemaInsertInvoice ==
  /\ clock < 2 + MaxSchemaWrites
  /\ \E v \in vendors, c \in customers :
       InsertInvoice(NextNumber("I"), v.id, c.id, NewDate(2026, 9),
                     NewDate(2026, 10), "pending", 4)
  /\ local' = SchemaStatement("insert", clock + 1)
  /\ UNCHANGED <<now, vendors, customers, categories, lineItems, payments,
                 pc, res, sent, upstream, seedData, seed>>

SchemaInsertLineItem ==
  /\ clock < 2 + MaxSchemaWrites
  /\ \E i \in invoices, c \in {Null} \cup {k.id : k \in categories} :
       InsertLineItem(i.id, c, 4)
  /\ local' = SchemaStatement("insert", clock + 1)
  /\ UNCHANGED <<now, vendors, customers, categories, invoices, payments,
                 pc, res, sent, upstream, seedData, seed>>

SchemaInsertPayment ==
  /\ clock < 2 + MaxSchemaWrites
  /\ \E i \in invoices : InsertPayment(i.id, 4)
  /\ local' = SchemaStatement("insert", clock + 1)
  /\ UNCHANGED <<now, vendors, customers, categories, invoices, lineItems,
                 pc, res, sent, upstream, seedData, seed>>

SchemaDeleteVendor ==
  /\ \E v \in vendors :
       /\ SeedStore(DeleteVendorRows(StoreNow, v.id))
       /\ local' = SchemaStatement("delete vendor", v.id)
  /\ UNCHANGED <<now, pc, res, sent, upstream, seedData, seed>>

SchemaDeleteCustomer ==
  /\ \E c \in customers :
       /\ SeedStore(DeleteCustomerRows(StoreNow, c.id))
       /\ local' = SchemaStatement("delete customer", c.id)
  /\ UNCHANGED <<now, pc, res, sent, upstream, seedData, seed>>

SchemaDeleteCategory ==
  /\ \E c \in categories :
       /\ SeedStore(DeleteCategoryRows(StoreNow, c.id))
       /\ local' = SchemaStatement("delete category", c.id)
  /\ UNCHANGED <<now, pc, res, sent, upstream, seedData, seed>>

SchemaDeleteInvoice ==
  /\ \E i \in invoices :
       /\ SeedStore(DeleteInvoiceRows(StoreNow, {i.id}))
       /\ local' = SchemaStatement("delete invoice", i.id)
  /\ UNCHANGED <<now, pc, res, sent, upstream, seedData, seed>>

\* line items and payments are referenced by no table
SchemaDeleteLeaf ==
  /\ \E table \in {"lineItems", "payments"} :
       \E r \in StoreNow[table] :
         /\ SeedStore([StoreNow EXCEPT ![table] = @ \ {r}])
         /\ local' = SchemaStatement("delete leaf", r.id)
  /\ UNCHANGED <<now, pc, res, sent, upstream, seedData, seed>>

SchemaNext ==
  \/ SchemaInsertNamed
  \/ SchemaInsertInvoice
  \/ SchemaInsertLineItem
  \/ SchemaInsertPayment
  \/ SchemaDeleteVendor
  \/ SchemaDeleteCustomer
  \/ SchemaDeleteCategory
  \/ SchemaDeleteInvoice
  \/ SchemaDeleteLeaf

SpecSchema == SchemaInit /\ [][SchemaNext]_vars

ReferentialIntegrity ==
  /\ \A i \in invoices :
       /\ \E v \in vendors : v.id = i.vendorId
       /\ \E c \in customers : c.id = i.customerId
  /\ \A l \in lineItems :
       /\ \E i \in invoices : i.id = l.invoiceId
       /\ l.categoryId = Null \/ \E c \in categories : c.id = l.categoryId
  /\ \A q \in payments : \E i \in invoices : i.id = q.invoiceId

\* the rows of table that hang, directly or through an invoice, on the
\* invoices whose column refers to id
SchemaDependants(st, column, id) ==
  LET gone == {i.id : i \in {j \in st.invoices : j[column] = id}}
  IN [invoices |-> {i \in st.invoices : i.id \in gone},
      lineItems |-> {l \in st.lineItems : l.invoiceId \in gone},
      payments |-> {q \in st.payments : q.invoiceId \in gone}]

SchemaCascaded(column) ==
  LET dep == SchemaDependants(local.before, column, local.id)
  IN /\ invoices = local.before.invoices \ dep.invoices
     /\ lineItems = local.before.lineItems \ dep.lineItems
     /\ payments = local.before.payments \ dep.payments
     /\ categories = local.before.categories

\* C23: after any sequence of inserts and deletes every reference points to
\* a row that exists; the delete of a vendor or a customer removes exactly
\* its invoices with their line items and payments; the delete of a
\* category leaves every line item in place, those of the category with a
\* null category
ForeignKeysHold ==
  /\ ReferentialIntegrity
  /\ ("op" \in DOMAIN local /\ local.op = "delete vendor") =>
       /\ SchemaCascaded("vendorId")
       /\ vendors = {v \in local.before.vendors : v.id # local.id}
  /\ ("op" \in DOMAIN local /\ local.op = "delete customer") =>
       /\ SchemaCascaded("customerId")
       /\ customers = {c \in local.before.customers : c.id # local.id}
  /\ ("op" \in DOMAIN local /\ local.op = "delete category") =>
       /\ invoices = local.before.invoices
       /\ payments = local.before.payments
       /\ {l.id : l \in lineItems} = {l.id : l \in local.before.lineItems}
       /\ \A l \in local.before.lineItems :
            \E m \in lineItems :
              /\ m.id = l.id
              /\ m.invoiceId = l.invoiceId
              /\ m.amount = l.amount
              /\ m.categoryId = IF l.categoryId = local.id THEN Null
                                ELSE l.categoryId

\* a vendor with an invoice that has a line item and a payment was deleted,
\* or a category with a line item was deleted
ForeignKeysWitness ==
  /\ "op" \in DOMAIN local
  /\ \/ /\ local.op = "delete vendor"
        /\ \E i \in local.before.invoices :
             /\ i.vendorId = local.id
             /\ \E l \in local.before.lineItems : l.invoiceId = i.id
             /\ \E q \in local.before.payments : q.invoiceId = i.id
     \/ /\ local.op = "delete category"
        /\ \E l \in local.before.lineItems : l.categoryId = local.id

----------------------------------------------------------------------------
(* The application's middleware chain (unnamed/part_005): cors, the body    *)
(* parsers, the health route, the seven routers, the 404 handler and the    *)
(* error handler, in the order of their registration. A path is the         *)
(* sequence of its segments.                                                *)

\* app.get('/health') and app.use(prefix, router) with the one route each
\* router registers
Routes ==
  <<[name |-> "health", prefix |-> <<"health">>, path |-> <<>>, method |-> "GET"],
    [name |-> "stats", prefix |-> <<"api", "stats">>, path |-> <<>>, method |-> "GET"],
    [name |-> "invoices", prefix |-> <<"api", "invoices">>, path |-> <<>>, method |-> "GET"],
    [name |-> "invoice-trends", prefix |-> <<"api", "invoice-trends">>, path |-> <<>>,
     method |-> "GET"],
    [name |-> "vendors", prefix |-> <<"api", "vendors">>, path |-> <<"top10">>,
     method |-> "GET"],
    [name |-> "category-spend", prefix |-> <<"api", "category-spend">>, path |-> <<>>,
     method |-> "GET"],
    [name |-> "cash-outflow", prefix |-> <<"api", "cash-outflow">>, path |-> <<>>,
     method |-> "GET"],
    [name |-> "chat-with-data", prefix |-> <<"api", "chat-with-data">>, path |-> <<>>,
     method |-> "POST"]>>

\* the router matches paths without regard to case
SegmentLower(seg) ==
  CASE seg = "API" -> "api"
    [] seg = "Stats" -> "stats"
    [] OTHER -> seg

PathLower(path) == [k \in 1..Len(path) |-> SegmentLower(path[k])]

\* a route registered with get also answers HEAD
RouteHandlesMethod(route, method) ==
  \/ method = route.method
  \/ method = "HEAD" /\ route.method = "GET"

RouteMatch(route, request) ==
  /\ PathLower(request.path) = route.prefix \o route.path
  /\ RouteHandlesMethod(route, request.method)

\* what the chain does with a request: the first layer that ends it
Dispatch(request) ==
  IF request.method = "OPTIONS"
  THEN [layer |-> "cors", status |-> 204, body |-> Undefined]
  ELSE IF request.body = "malformed"
  THEN [layer |-> "error", status |-> 500,
        body |-> [error |-> "Internal server error",
                  message |-> "Unexpected end of JSON input"]]
  ELSE IF \E k \in DOMAIN Routes : RouteMatch(Routes[k], request)
  THEN [layer |-> Routes[CHOOSE k \in DOMAIN Routes :
                           /\ RouteMatch(Routes[k], request)
                           /\ \A j \in 1..(k - 1) : ~RouteMatch(Routes[j], request)].name]
  ELSE [layer |-> "404", status |-> 404, body |-> [error |-> "Not found"]]

RouteMethods == {"GET", "HEAD", "POST", "PUT", "DELETE", "OPTIONS"}

RoutePaths ==
  {<<>>, <<"health">>, <<"health", "x">>, <<"api">>, <<"api", "stats">>,
   <<"API", "Stats">>, <<"api", "stats", "x">>, <<"api", "invoices">>,
   <<"api", "invoice-trends">>, <<"api", "vendors">>,
   <<"api", "vendors", "top10">>, <<"api", "vendors", "top11">>,
   <<"api", "vendors", "top10", "x">>, <<"api", "category-spend">>,
   <<"api", "cash-outflow">>, <<"api", "chat-with-data">>, <<"api", "nope">>}

RouteBodies == {"none", "json", "malformed"}

RouteRequests == [method : RouteMethods, path : RoutePaths, body : RouteBodies]

RouteInit ==
  /\ now = [year |-> 2026, month |-> 10, tick |-> 1]
  /\ InitStoreOneVendor
  /\ InitIdle

RouteLocal(request) == [handler |-> "app", request |-> request]

\* app.use(cors()): a preflight is answered by the middleware
RouteCors ==
  /\ pc = "idle"
  /\ \E request \in RouteRequests :
       /\ Dispatch(request).layer = "cors"
       /\ local' = RouteLocal(request)
       /\ RespondAtOnce(204, Undefined)
  /\ pc' = "done"
  /\ UNCHANGED <<now, clock, store, upstream, seedData, seed>>

\* app.use(express.json()) fails on the body and the error handler answers
RouteBodyError ==
  /\ pc = "idle"
  /\ \E request \in RouteRequests :
       /\ Dispatch(request).layer = "error"
       /\ local' = RouteLocal(request)
       /\ RespondAtOnce(Dispatch(request).status, Dispatch(request).body)
  /\ pc' = "done"
  /\ UNCHANGED <<now, clock, store, upstream, seedData, seed>>

\* app.get('/health')
RouteHealth ==
  /\ pc = "idle"
  /\ \E request \in RouteRequests :
       /\ Dispatch(request).layer = "health"
       /\ local' = RouteLocal(request)
       /\ RespondAtOnce(200, [status |-> "ok", timestamp |-> now])
  /\ pc' = "done"
  /\ UNCHANGED <<now, clock, store, upstream, seedData, seed>>

\* the request reaches the handler of one of the routers, which answers it
RouteHandled ==
  /\ pc = "idle"
  /\ \E request \in RouteRequests :
       /\ Dispatch(request).layer \notin {"cors", "error", "health", "404"}
       /\ local' = [handler |-> Dispatch(request).layer, request |-> request]
       /\ \E status \in {200, 400, 503} :
            RespondAtOnce(status, [route |-> Dispatch(request).layer])
  /\ pc' = "done"
  /\ UNCHANGED <<now, clock, store, upstream, seedData, seed>>

\* app.use((req, res) => res.status(404).json({ error: 'Not found' }))
RouteNotFound ==
  /\ pc = "idle"
  /\ \E request \in RouteRequests :
       /\ Dispatch(request).layer = "404"
       /\ local' = RouteLocal(request)
       /\ RespondAtOnce(Dispatch(request).status, Dispatch(request).body)
  /\ pc' = "done"
  /\ UNCHANGED <<now, clock, store, upstream, seedData, seed>>

RouteNext ==
  \/ Finish
  \/ RouteCors
  \/ RouteBodyError
  \/ RouteHealth
  \/ RouteHandled
  \/ RouteNotFound

SpecRoutes == RouteInit /\ [][RouteNext]_vars

\* the request's method and path are those of a registered route
RouteRegistered(request) ==
  \E k \in DOMAIN Routes :
    /\ request.path = Routes[k].prefix \o Routes[k].path
    /\ request.method = Routes[k].method

RouteNotFoundResponse == [status |-> 404, body |-> [error |-> "Not found"]]

\* C25: a request is answered 404 {error: "Not found"} exactly when its
\* method and path are those of no registered route
UnmatchedIsNotFound ==
  (pc = "done" /\ "request" \in DOMAIN local) =>
    (res = RouteNotFoundResponse <=> ~RouteRegistered(local.request))

----------------------------------------------------------------------------
(* The chat page (client/src/pages/chat.tsx): local holds the component's   *)
(* state (the input text and the messages) with the variables of the        *)
(* mutate calls in the order they settled; upstream holds the requests in   *)
(* flight.                                                                  *)

RECURSIVE TrimStart(_)
TrimStart(t) ==
  IF t # <<>> /\ Head(t) = " " THEN TrimStart(Tail(t)) ELSE t

RECURSIVE TrimEnd(_)
TrimEnd(t) ==
  IF t # <<>> /\ t[Len(t)] = " " THEN TrimEnd(SubSeq(t, 1, Len(t) - 1)) ELSE t

\* String.prototype.trim
Trim(t) == TrimEnd(TrimStart(t))

\* chatMutation.isPending
IsPending == upstream # <<>>

\* the texts the textarea can hold
PageTexts ==
  UNION {[1..n -> {" ", "a"}] : n \in 0..MaxQueryLen}

PageInit ==
  /\ now = [year |-> 2026, month |-> 10, tick |-> 1]
  /\ InitStoreOneVendor
  /\ pc = "idle"
  /\ local = [handler |-> "chat.tsx", query |-> <<>>, messages |-> <<>>,
              requests |-> <<>>]
  /\ res = NoResponse
  /\ sent = 0
  /\ upstream = <<>>
  /\ seedData = <<>>
  /\ seed = NoSeed

\* onChange: setQuery(e.target.value)
PageType ==
  /\ \E text \in PageTexts : local' = [local EXCEPT !.query = text]
  /\ UNCHANGED <<now, clock, store, pc, res, sent, upstream, seedData, seed>>

\* handleSubmit
PageSubmit ==
  /\ Len(local.messages) + Len(upstream) < MaxChatMessages
  /\ IF Trim(local.query) = <<>> \/ IsPending
     THEN upstream' = upstream
     ELSE upstream' = Append(upstream, [query |-> Trim(local.query)])
  /\ UNCHANGED <<now, clock, store, pc, local, res, sent, seedData, seed>>

\* onSuccess(data, userQuery)
PageSuccess ==
  /\ upstream # <<>>
  /\ local' = [local EXCEPT
                 !.messages = Append(@, [query |-> Head(upstream).query,
                                         error |-> Undefined]),
                 !.requests = Append(@, Head(upstream).query),
                 !.query = <<>>]
  /\ upstream' = Tail(upstream)
  /\ UNCHANGED <<now, clock, store, pc, res, sent, seedData, seed>>

\* onError(error): the entry takes the component's query state
PageError ==
  /\ upstream # <<>>
  /\ local' = [local EXCEPT
                 !.messages = Append(@, [query |-> local.query,
                                         error |-> Str("Failed to process query")]),
                 !.requests = Append(@, Head(upstream).query)]
  /\ upstream' = Tail(upstream)
  /\ UNCHANGED <<now, clock, store, pc, res, sent, seedData, seed>>

PageNext ==
  \/ PageType
  \/ PageSubmit
  \/ PageSuccess
  \/ PageError

SpecChatPage == PageInit /\ [][PageNext]_vars

\* C30: at most one request is in flight, no request carries a blank
\* query, and every entry of the history holds the query text of the
\* request it answers.
PageHistoryIsExact ==
  /\ Len(upstream) <= 1
  /\ \A k \in DOMAIN upstream : Trim(upstream[k].query) # <<>>
  /\ \A k \in DOMAIN local.messages :
       local.messages[k].query = local.requests[k]

====
